---- MODULE Spec2Model ----
(***************************************************************************)
(* A model of the hallucination-detection core of Smart-Code-X             *)
(* (src/backend/agents/hallucination_agent.py): the tokenizer, the         *)
(* structural feature extractor, the feature vectorizer with its           *)
(* persistence, and the dataset synthesizer.                               *)
(*                                                                         *)
(* A text is a sequence of one-character strings.  Each component has its  *)
(* own specification (SpecTokenizer, SpecAst, ...) over the shared         *)
(* variables; the variables of the other components stay idle.             *)
(***************************************************************************)
EXTENDS Integers, Sequences, FiniteSets, TLC

VARIABLES
    code,        \* tokenizer: the text last given to tokenize_code
    tokens,      \* tokenizer: the list it returned
    tokOutcome,  \* tokenizer: "off", "called" or "returned"
    tree,        \* ast_features: the outcome of ast.parse on the text last given
    feat,        \* ast_features: the record it returned (empty if it raised)
    astOutcome,  \* ast_features: "off", "called", "returned" or "raised"
    fe,          \* the CodeFeatureExtractor the caller holds
    clf,         \* the classifier the caller holds
    disk,        \* the file at save_path: the pickled bundle, or empty
    saved,       \* the objects last pickled into disk, and how many runs have written
                 \* there: 0, 1 or more (history)
    lastOp,      \* the operation last called on the pipeline
    lastArg,     \* the texts it was called with
    lastOut,     \* what it returned, or that it raised
    memo,        \* one earlier transform of the same fitted vectorizer (history)
    fitted,      \* the texts of the corpus fe was fitted on by the caller: those
                 \* among its first ten and those after them (history)
    rng,         \* the state of the generator of the random module
    synOp,       \* the generator function last called
    synArgs,     \* its arguments
    synOut,      \* what it returned
    synMemo,     \* one earlier call of synthetic_dataset (history)
    text,        \* surface_features: the text last given
    surf,        \* surface_features: the record it returned
    surfOutcome, \* surface_features: "off", "called" or "returned"
    ML_AVAILABLE,  \* recommender: whether the import of transformers succeeded
    ML_MODEL,      \* recommender: the global _ML_MODEL
    ML_TOKENIZER,  \* recommender: the global _ML_TOKENIZER
    mlPc,          \* recommender: where each caller of suggest_fix_ml stands
    mlCtx,         \* recommender: whether each caller's code_context is non-empty
    mlOut,         \* recommender: what the last call of each caller returned
    mlLoads,       \* recommender: how many loads have been started (history)
    analyze_hdva,  \* orchestrator: the imported analyze_hdva, or None (lines 43-46)
    orchPc,        \* orchestrator: where run_all_agents stands
    session_id,    \* orchestrator: the local session_id, or None
    saa_err,       \* orchestrator: the locals saa_err, scaa_err and hdva_err
    scaa_err,
    hdva_err,
    result,        \* orchestrator: what run_all_agents returned
    created,       \* orchestrator: the session ids created so far (history)
    invoked,       \* orchestrator: the agents called in this run, each with the
                   \* session id it was given (history)
    runs,          \* orchestrator: how many runs have been started (history)
    users,         \* auth: the documents of the collection 'users'
    authPc,        \* auth: where each call of create_or_update_oauth_user stands
    authArg,       \* auth: the email, username and provider each was called with
    authDoc,       \* auth: the local existing_user_doc of each, or None
    authName,      \* auth: the local username of each
    authCounter,   \* auth: the local counter of each
    authCalls      \* auth: how many calls have been started (history)

tokVars == <<code, tokens, tokOutcome>>
astVars == <<tree, feat, astOutcome>>
vecVars == <<fe, clf, disk, saved, lastOp, lastArg, lastOut, memo, fitted>>
synVars == <<rng, synOp, synArgs, synOut, synMemo>>
surfVars == <<text, surf, surfOutcome>>
mlVars == <<ML_AVAILABLE, ML_MODEL, ML_TOKENIZER, mlPc, mlCtx, mlOut, mlLoads>>
orchVars == <<analyze_hdva, orchPc, session_id, saa_err, scaa_err, hdva_err, result,
              created, invoked, runs>>
coreVars == <<tokVars, astVars, vecVars, synVars, surfVars>>
authVars == <<users, authPc, authArg, authDoc, authName, authCounter, authCalls>>
hostVars == <<mlVars, orchVars, authVars>>
vars == <<tokVars, astVars, vecVars, synVars, surfVars, hostVars>>

(***************************************************************************)
(* Bounds of the model.                                                    *)
(***************************************************************************)
MaxPieces == 4       \* a tokenizer input is at most this many pieces long
MaxQuotePieces == 5  \* ... or this many pieces of the quoting characters alone
MaxChildNodes == 3   \* a syntax tree has a root and at most this many other nodes
RecursionLimit == 8  \* the interpreter's recursion limit (1000), scaled to the trees
MaxOverLimit == 1    \* the deepest tree is this much deeper than the recursion limit
MaxTail == 2         \* a corpus is an optional sample prefix and at most this many texts
MaxBatch == 1        \* transform is called with at most this many texts
MaxBatchTexts == 2   \* ... and the one transform of a run with at most this many
MaxFeaturesTfidf == 3  \* max_features of the term vocabulary (800), scaled to the texts
NumTrees == 2        \* n_estimators of the forest (200), scaled
MaxLines == 10       \* the most lines of a text of comment and code lines
MaxMixedLines == 3   \* the most lines of a text with blank and indented lines
MaxCount == 2        \* the largest n_real, n_hall and snippet index called with
NumCallers == 2      \* the threads that call suggest_fix_ml
MaxRuns == 2         \* run_all_agents is called at most this many times
NumWorkers == 2      \* the server processes that handle OAuth callbacks
MaxOAuthCalls == 3   \* create_or_update_oauth_user is called at most this many times

\* codes[:10], line 150
SamplePrefix == 10

(***************************************************************************)
(* Characters.                                                             *)
(***************************************************************************)
SQ == "'"
DQ == "\""
BSL == "\\"
NL == "\n"
HASH == "#"
SP == " "

\* [A-Za-z_]
IdentStartChars == {"a", "b", "f", "x", "A", "_"}
\* [A-Za-z0-9_\.]
IdentContChars == IdentStartChars \cup {"1", "."}

\* The pieces tokenizer inputs are built from: single characters and the two
\* triple-quote delimiters.
Pieces ==
    { <<"a">>, <<"1">>, <<".">>, <<SQ>>, <<DQ>>, <<BSL>>, <<HASH>>, <<NL>>,
      <<SQ, SQ, SQ>>, <<DQ, DQ, DQ>> }

RECURSIVE Flatten(_)
Flatten(ps) == IF ps = <<>> THEN <<>> ELSE Head(ps) \o Flatten(Tail(ps))

\* The pieces that decide where a literal begins and ends.
QuotePieces == { <<"a">>, <<SQ>>, <<DQ>>, <<BSL>>, <<HASH>>, <<NL>> }

TokenizerInputs(maxPieces, maxQuotePieces) ==
    { Flatten(ps) : ps \in UNION { [1..n -> Pieces] : n \in 0..maxPieces } }
    \cup
    { Flatten(ps) : ps \in UNION { [1..n -> QuotePieces] : n \in 0..maxQuotePieces } }

(***************************************************************************)
(* tokenize_code, line 80: re.sub of the four-way alternation by ' '.      *)
(***************************************************************************)
\* Whether s holds the three characters q q q from position i.
TripleAt(s, i, q) ==
    /\ i + 2 <= Len(s)
    /\ s[i] = q /\ s[i + 1] = q /\ s[i + 2] = q

\* '''[\s\S]*?''' at i: the last position of the match (0: no match).  The
\* non-greedy body stops at the first closing delimiter at or after i + 3.
TripleEnd(s, i, q) ==
    IF ~TripleAt(s, i, q) THEN 0
    ELSE LET closes == { j \in (i + 3)..Len(s) : TripleAt(s, j, q) }
         IN  IF closes = {} THEN 0
             ELSE (CHOOSE j \in closes : \A k \in closes : j <= k) + 2

\* '[^']*' at i: the last position of the match (0: no match).
SingleEnd(s, i, q) ==
    IF ~(i <= Len(s) /\ s[i] = q) THEN 0
    ELSE LET closes == { j \in (i + 1)..Len(s) : s[j] = q }
         IN  IF closes = {} THEN 0
             ELSE CHOOSE j \in closes : \A k \in closes : j <= k

\* The alternation tried at position i, its branches in the pattern's order.
LiteralEnd(s, i) ==
    IF TripleEnd(s, i, SQ) # 0 THEN TripleEnd(s, i, SQ)
    ELSE IF TripleEnd(s, i, DQ) # 0 THEN TripleEnd(s, i, DQ)
    ELSE IF SingleEnd(s, i, SQ) # 0 THEN SingleEnd(s, i, SQ)
    ELSE SingleEnd(s, i, DQ)

RECURSIVE SubFrom(_, _)
SubFrom(s, i) ==
    IF i > Len(s) THEN <<>>
    ELSE IF LiteralEnd(s, i) # 0 THEN <<SP>> \o SubFrom(s, LiteralEnd(s, i) + 1)
    ELSE <<s[i]>> \o SubFrom(s, i + 1)

\* code_no_strings = re.sub(..., ' ', code)
code_no_strings(s) == SubFrom(s, 1)

(***************************************************************************)
(* tokenize_code, line 81: re.findall(r'[A-Za-z_][A-Za-z0-9_\.]*', ...).   *)
(***************************************************************************)
\* The last position of the greedy match that starts at i.
RECURSIVE RunEnd(_, _)
\* (a scan in which a dot ends the token)
RunEnd_stops_at_dot(s, i) ==
    IF i + 1 <= Len(s) /\ s[i + 1] \in IdentContChars \ {"."}
    THEN RunEnd(s, i + 1) ELSE i

RunEnd(s, i) ==
    IF i + 1 <= Len(s) /\ s[i + 1] \in IdentContChars THEN RunEnd(s, i + 1) ELSE i

RECURSIVE FindAllFrom(_, _)
FindAllFrom(s, i) ==
    IF i > Len(s) THEN <<>>
    ELSE IF s[i] \in IdentStartChars
         THEN <<SubSeq(s, i, RunEnd(s, i))>> \o FindAllFrom(s, RunEnd(s, i) + 1)
         ELSE FindAllFrom(s, i + 1)

findall_identifiers(s) == FindAllFrom(s, 1)

tokenize_code(s) == findall_identifiers(code_no_strings(s))

\* A call tokenize_code(code).
TokenizeCode ==
    /\ tokOutcome = "called"
    /\ tokens' = tokenize_code(code)
    /\ tokOutcome' = "returned"
    /\ UNCHANGED <<code, astVars, vecVars, synVars, surfVars, hostVars>>

TokIdle == code = <<>> /\ tokens = <<>> /\ tokOutcome = "off"

(***************************************************************************)
(* ast_features, lines 85-115.                                             *)
(*                                                                         *)
(* ast.parse either raises (any Exception) or returns a tree.  A tree is   *)
(* given in preorder, each node with its kind and its depth below the      *)
(* root: <<[kind |-> "Module", depth |-> 0], ...>>.                        *)
(***************************************************************************)
CountedKinds == <<"If", "For", "While", "Call", "Assign", "Return">>

NodeKinds ==
    { "FunctionDef", "ClassDef", "Import", "ImportFrom",
      "If", "For", "While", "Call", "Assign", "Return", "Name" }

ParseError == <<>>

RECURSIVE TreesOf(_)
TreesOf(n) ==
    IF n = 0 THEN { <<[kind |-> "Module", depth |-> 0]>> }
    ELSE LET smaller == TreesOf(n - 1)
             full == { u \in smaller : Len(u) = n }
             ext == { x \in full \X NodeKinds \X (1..n) :
                        x[3] <= x[1][Len(x[1])].depth + 1 }
         IN  smaller \cup { Append(x[1], [kind |-> x[2], depth |-> x[3]]) : x \in ext }

\* The trees of '-' * k + '1': a chain of unary operators below the root.
ChainsTo(n) ==
    { <<[kind |-> "Module", depth |-> 0]>>
        \o [ i \in 1..k |-> [kind |-> IF i = 1 THEN "Expr" ELSE "UnaryOp", depth |-> i] ] :
      k \in 1..n }

\* The tree of
\*     def add(a, b):
\*         return a + b
tree_def_add ==
    << [kind |-> "Module", depth |-> 0], [kind |-> "FunctionDef", depth |-> 1],
       [kind |-> "arguments", depth |-> 2], [kind |-> "arg", depth |-> 3],
       [kind |-> "arg", depth |-> 3], [kind |-> "Return", depth |-> 2],
       [kind |-> "BinOp", depth |-> 3], [kind |-> "Name", depth |-> 4],
       [kind |-> "Load", depth |-> 5], [kind |-> "Add", depth |-> 4],
       [kind |-> "Name", depth |-> 4], [kind |-> "Load", depth |-> 5] >>

ParseOutcomes(maxChildNodes, maxDepth) ==
    {ParseError, tree_def_add} \cup TreesOf(maxChildNodes) \cup ChainsTo(maxDepth)

\* (a count of the statements of the module body only)
counter_get_top_level(t, kind) ==
    Cardinality({ i \in DOMAIN t : t[i].kind = kind /\ t[i].depth <= 1 })

\* counter[type(node).__name__] after visit(tree), line 103
counter_get(t, kind) == Cardinality({ i \in DOMAIN t : t[i].kind = kind })

\* (a depth that counts the nodes of the path, the root at 1)
visit_max_depth_root_at_one(t) ==
    CHOOSE d \in { t[i].depth + 1 : i \in DOMAIN t } :
        \A i \in DOMAIN t : t[i].depth + 1 <= d

\* max_depth after visit(tree), line 104
visit_max_depth(t) ==
    CHOOSE d \in { t[i].depth : i \in DOMAIN t } :
        \A i \in DOMAIN t : t[i].depth <= d

\* visit(child, depth + 1), line 106, is a call of the interpreter: the
\* traversal of a tree with a node at the recursion limit raises RecursionError.
visit_raises(t) == \E i \in DOMAIN t : t[i].depth >= RecursionLimit

\* lines 113-114
RECURSIVE kind_counts(_, _)
kind_counts(t, keys) ==
    IF keys = <<>> THEN <<>>
    ELSE ("ast_" \o Head(keys) \o "_count" :> counter_get(t, Head(keys)))
         @@ kind_counts(t, Tail(keys))

\* (an except branch that also sets the six per-kind counts to 0)
unparsable_record_with_counts ==
    ("ast_parsable" :> 0) @@ ("num_functions" :> 0) @@ ("num_classes" :> 0)
    @@ ("num_imports" :> 0) @@ ("max_depth" :> 0)
    @@ ("ast_If_count" :> 0) @@ ("ast_For_count" :> 0) @@ ("ast_While_count" :> 0)
    @@ ("ast_Call_count" :> 0) @@ ("ast_Assign_count" :> 0) @@ ("ast_Return_count" :> 0)

\* lines 90-95: the record of the except branch
unparsable_record ==
    ("ast_parsable" :> 0) @@ ("num_functions" :> 0) @@ ("num_classes" :> 0)
    @@ ("num_imports" :> 0) @@ ("max_depth" :> 0)

\* lines 97-115: the record built from a tree
parsed_record(t) ==
    ("ast_parsable" :> 1)
    @@ ("num_functions" :> counter_get(t, "FunctionDef"))
    @@ ("num_classes" :> counter_get(t, "ClassDef"))
    @@ ("num_imports" :> counter_get(t, "Import") + counter_get(t, "ImportFrom"))
    @@ ("max_depth" :> visit_max_depth(t))
    @@ kind_counts(t, CountedKinds)

\* What ast_features returns for a text whose parse is p, when it returns.
ast_features(p) == IF p = ParseError THEN unparsable_record ELSE parsed_record(p)

\* Whether ast_features raises to its caller for a text whose parse is p:
\* ast.parse is inside the try, visit(tree) (line 108) is not.
ast_features_raises(p) == p # ParseError /\ visit_raises(p)

\* A call ast_features(code), the text's parse being tree.
AstFeatures ==
    /\ astOutcome = "called"
    /\ IF ast_features_raises(tree)
       THEN feat' = <<>> /\ astOutcome' = "raised"
       ELSE feat' = ast_features(tree) /\ astOutcome' = "returned"
    /\ UNCHANGED <<tree, tokVars, vecVars, synVars, surfVars, hostVars>>

AstIdle == tree = ParseError /\ feat = <<>> /\ astOutcome = "off"

(***************************************************************************)
(* The texts of the pipeline: a text with the outcome of ast.parse on it.  *)
(***************************************************************************)
\* x='f'
doc_assign ==
    [ chars |-> <<"x", "=", SQ, "f", SQ>>,
      parse |-> << [kind |-> "Module", depth |-> 0], [kind |-> "Assign", depth |-> 1],
                   [kind |-> "Name", depth |-> 2], [kind |-> "Store", depth |-> 3],
                   [kind |-> "Constant", depth |-> 2] >> ]

\* f(x.      (a syntax error)
doc_broken == [ chars |-> <<"f", "(", "x", ".">>, parse |-> ParseError ]

\* #a
\* A.b()
doc_call ==
    [ chars |-> <<HASH, "a", NL, "A", ".", "b", "(", ")">>,
      parse |-> << [kind |-> "Module", depth |-> 0], [kind |-> "Expr", depth |-> 1],
                   [kind |-> "Call", depth |-> 2], [kind |-> "Attribute", depth |-> 3],
                   [kind |-> "Name", depth |-> 4], [kind |-> "Load", depth |-> 5],
                   [kind |-> "Load", depth |-> 4] >> ]

\* the empty text
doc_empty == [ chars |-> <<>>, parse |-> <<[kind |-> "Module", depth |-> 0]>> ]

Docs == { doc_assign, doc_broken, doc_call, doc_empty }

\* tree = ast.parse(code), line 88
ast_parse(d) == d.parse

(***************************************************************************)
(* surface_features, lines 118-132.                                        *)
(***************************************************************************)
\* code.splitlines()
RECURSIVE SplitLinesFrom(_, _, _)
SplitLinesFrom(s, i, cur) ==
    IF i > Len(s) THEN (IF cur = <<>> THEN <<>> ELSE <<cur>>)
    ELSE IF s[i] = NL THEN <<cur>> \o SplitLinesFrom(s, i + 1, <<>>)
    ELSE SplitLinesFrom(s, i + 1, Append(cur, s[i]))

splitlines(s) == SplitLinesFrom(s, 1, <<>>)

\* ln.strip()
RECURSIVE strip(_)
strip(ln) ==
    IF ln = <<>> THEN <<>>
    ELSE IF Head(ln) \in {SP, NL} THEN strip(Tail(ln))
    ELSE IF ln[Len(ln)] \in {SP, NL} THEN strip(SubSeq(ln, 1, Len(ln) - 1))
    ELSE ln

RECURSIVE GCD(_, _)
GCD(a, b) == IF b = 0 THEN a ELSE GCD(b, a % b)

\* The float p / q, as the fraction in lowest terms.
Ratio(p, q) == <<p \div GCD(p, q), q \div GCD(p, q)>>

\* (a ratio of the comment lines to the lines that are not blank)
surface_features_over_code_lines(s) ==
    LET lines == splitlines(s)
        n_lines == Len(lines)
        n_comments ==
            Cardinality({ i \in DOMAIN lines :
                            strip(lines[i]) # <<>> /\ Head(strip(lines[i])) = HASH })
        n_blank == Cardinality({ i \in DOMAIN lines : strip(lines[i]) = <<>> })
    IN  ("n_lines" :> n_lines) @@ ("n_chars" :> Len(s)) @@ ("n_comments" :> n_comments)
        @@ ("n_blank" :> n_blank) @@ ("n_tokens" :> Len(tokenize_code(s)))
        @@ ("comment_ratio" :>
               Ratio(n_comments, IF n_lines - n_blank > 1 THEN n_lines - n_blank ELSE 1))

surface_features(s) ==
    LET lines == splitlines(s)
        n_lines == Len(lines)
        n_comments ==
            Cardinality({ i \in DOMAIN lines :
                            strip(lines[i]) # <<>> /\ Head(strip(lines[i])) = HASH })
        n_blank == Cardinality({ i \in DOMAIN lines : strip(lines[i]) = <<>> })
    IN  ("n_lines" :> n_lines) @@ ("n_chars" :> Len(s)) @@ ("n_comments" :> n_comments)
        @@ ("n_blank" :> n_blank) @@ ("n_tokens" :> Len(tokenize_code(s)))
        @@ ("comment_ratio" :> Ratio(n_comments, IF n_lines > 1 THEN n_lines ELSE 1))

\* The texts surface_features is called with: up to maxLines lines, each a
\* comment or code, and up to maxMixedLines lines with blank, indented and
\* trailing-comment lines among them; with or without a final line break.
RECURSIVE JoinLines(_)
JoinLines(ls) ==
    IF ls = <<>> THEN <<>>
    ELSE IF Len(ls) = 1 THEN Head(ls)
    ELSE Head(ls) \o <<NL>> \o JoinLines(Tail(ls))

SurfaceInputs(maxLines, maxMixedLines) ==
    LET plain == UNION { [1..n -> { <<HASH>>, <<"a">> }] : n \in 0..maxLines }
        mixed == UNION { [1..n -> { <<>>, <<SP>>, <<SP, HASH, "a">>, <<"a", HASH>>, <<HASH>> }] :
                           n \in 0..maxMixedLines }
    IN  { JoinLines(ls) \o e : ls \in plain \cup mixed, e \in { <<>>, <<NL>> } }

\* A call surface_features(code).
SurfaceFeatures ==
    /\ surfOutcome = "called"
    /\ surf' = surface_features(text)
    /\ surfOutcome' = "returned"
    /\ UNCHANGED <<text, tokVars, astVars, vecVars, synVars, hostVars>>

SurfIdle == text = <<>> /\ surf = <<>> /\ surfOutcome = "off"

(***************************************************************************)
(* CodeFeatureExtractor, lines 138-175.                                    *)
(***************************************************************************)
\* _numeric_features, lines 157-161: the later update wins.
numeric_features_of(d) == surface_features(d.chars) @@ ast_features(ast_parse(d))

NumericFeaturesTable == [ d \in Docs |-> numeric_features_of(d) ]

numeric_features(d) == NumericFeaturesTable[d]

numeric_features_raises(d) == ast_features_raises(ast_parse(d))

\* " ".join(tokens), lines 148 and 164
RECURSIVE join(_)
join(ts) ==
    IF ts = <<>> THEN <<>>
    ELSE IF Len(ts) = 1 THEN Head(ts)
    ELSE Head(ts) \o <<SP>> \o join(Tail(ts))

\* The vectorizer's preprocessing lowercases (lowercase=True, its default).
lower(s) == [ i \in DOMAIN s |-> IF s[i] = "A" THEN "a" ELSE s[i] ]

\* \w
WordChars == IdentStartChars \cup {"1"}

\* token_pattern, line 142: \b[A-Za-z_][A-Za-z0-9_\.]*\b matched at i ends at the
\* last word character of the greedy run (the trailing \b backtracks over dots).
TokenPatternEnd(s, i) ==
    CHOOSE j \in i..RunEnd(s, i) :
        /\ s[j] \in WordChars
        /\ \A k \in (j + 1)..RunEnd(s, i) : s[k] \notin WordChars

RECURSIVE AnalyzeFrom(_, _)
AnalyzeFrom(s, i) ==
    IF i > Len(s) THEN <<>>
    ELSE IF s[i] \in IdentStartChars /\ (i = 1 \/ s[i - 1] \notin WordChars)
         THEN <<SubSeq(s, i, TokenPatternEnd(s, i))>>
              \o AnalyzeFrom(s, TokenPatternEnd(s, i) + 1)
         ELSE AnalyzeFrom(s, i + 1)

\* The terms the vectorizer sees in a text: lines 148/164, then its analyzer.
doc_terms_of(d) == AnalyzeFrom(lower(join(tokenize_code(d.chars))), 1)

DocTermsTable == [ d \in Docs |-> doc_terms_of(d) ]

doc_terms(d) == DocTermsTable[d]

\* How often term t occurs in the text.
term_count(d, t) == Cardinality({ i \in DOMAIN doc_terms(d) : doc_terms(d)[i] = t })

\* The order of the sorted vocabulary: by code point, a prefix first.
CharCode(c) ==
    CASE c = "." -> 46 [] c = "1" -> 49 [] c = "A" -> 65 [] c = "_" -> 95
      [] c = "a" -> 97 [] c = "b" -> 98 [] c = "f" -> 102 [] c = "x" -> 120

RECURSIVE TermLess(_, _)
TermLess(s, t) ==
    IF t = <<>> THEN FALSE
    ELSE IF s = <<>> THEN TRUE
    ELSE IF Head(s) # Head(t) THEN CharCode(Head(s)) < CharCode(Head(t))
    ELSE TermLess(Tail(s), Tail(t))

SortTerms(S) ==
    [ k \in 1..Cardinality(S) |->
        CHOOSE t \in S : Cardinality({ u \in S : TermLess(u, t) }) = k - 1 ]

RECURSIVE SumOver(_, _, _)
\* the sum of F[c[i]] for i in 1..n
SumOver(c, n, F) == IF n = 0 THEN 0 ELSE F[c[n]] + SumOver(c, n - 1, F)

\* self.tfidf.fit(token_texts), line 149: the vocabularies it may keep.  With more
\* terms than max_features it keeps the most frequent ones of the corpus; which of
\* equally frequent terms it keeps is the sort's affair.
kept_vocabularies(c) ==
    LET terms == UNION { { doc_terms(c[i])[j] : j \in DOMAIN doc_terms(c[i]) } : i \in DOMAIN c }
        total(t) == SumOver(c, Len(c), [d \in Docs |-> term_count(d, t)])
    IN  IF Cardinality(terms) <= MaxFeaturesTfidf THEN {terms}
        ELSE { K \in SUBSET terms :
                 /\ Cardinality(K) = MaxFeaturesTfidf
                 /\ \A k \in K : \A o \in terms \ K : total(k) >= total(o) }

\* idf of term t after fitting on c: the number of texts and the number of
\* texts with t, of which the weight ln((1 + n) / (1 + df)) + 1 is a function.
idf_of(c, t) ==
    <<Len(c), Cardinality({ i \in DOMAIN c : term_count(c[i], t) > 0 })>>

\* The names of the structural and surface records as sorted() orders them.
SortedNameUniverse ==
    << "ast_Assign_count", "ast_Call_count", "ast_For_count", "ast_If_count",
       "ast_Return_count", "ast_While_count", "ast_parsable", "comment_ratio",
       "max_depth", "n_blank", "n_chars", "n_comments", "n_lines", "n_tokens",
       "num_classes", "num_functions", "num_imports" >>

\* sorted(list(all_keys)), line 154
sorted_names(keys) == SelectSeq(SortedNameUniverse, LAMBDA k : k \in keys)

\* (the keys of the records of the whole corpus)
sample_keys_of_all(c) == UNION { DOMAIN numeric_features(c[i]) : i \in DOMAIN c }

\* lines 150-153: the keys of the records of codes[:10]
sample_keys(c) ==
    UNION { DOMAIN numeric_features(c[i]) :
              i \in { j \in DOMAIN c : j <= SamplePrefix } }

\* __init__, lines 139-145
new_extractor ==
    [ tfidf_fitted |-> FALSE, vocabulary_ |-> <<>>, idf_ |-> <<>>,
      names_is_none |-> TRUE, numeric_feature_names |-> <<>> ]

\* The corpora: an optional sample prefix of one text, then up to MaxTail texts.
Repeat(d, n) == [ i \in 1..n |-> d ]

Corpora ==
    { p \o t :
        p \in {<<>>} \cup { Repeat(d, SamplePrefix) : d \in {doc_assign, doc_broken} },
        t \in UNION { [1..n -> Docs] : n \in 0..MaxTail } }

\* What fit(c) computes, lines 148-154: each vocabulary line 149 may keep, with
\* its weights, and the names of lines 150-154.  An empty vocabulary makes line
\* 149 raise; a text of the sample whose traversal raises makes line 150 raise.
fit_outcomes(c) ==
    { [ empty_vocabulary |-> K = {},
        vocabulary_ |-> SortTerms(K),
        idf_ |-> [ k \in 1..Cardinality(K) |-> idf_of(c, SortTerms(K)[k]) ],
        sample_raises |->
            \E i \in DOMAIN c : i <= SamplePrefix /\ numeric_features_raises(c[i]),
        names |-> sorted_names(sample_keys(c)) ]
      : K \in kept_vocabularies(c) }

FitTable == [ c \in Corpora |-> fit_outcomes(c) ]

\* fit, lines 147-155: the extractor after fit(c) with outcome o.  When line 149
\* raises nothing is assigned; when line 150 raises the vocabulary is already set.
fit(f, o) ==
    IF o.empty_vocabulary THEN f
    ELSE IF o.sample_raises
    THEN [f EXCEPT !.tfidf_fitted = TRUE, !.vocabulary_ = o.vocabulary_, !.idf_ = o.idf_]
    ELSE [f EXCEPT !.tfidf_fitted = TRUE, !.vocabulary_ = o.vocabulary_, !.idf_ = o.idf_,
                   !.names_is_none = FALSE, !.numeric_feature_names = o.names]

fit_raises(o) == o.empty_vocabulary \/ o.sample_raises

\* X_tfidf, line 165: the row of one text.  An entry <<"tfidf", tf, n, df>> stands
\* for tf * (ln((1 + n) / (1 + df)) + 1) over the norm of the row, which the
\* entries of the row determine.
tfidf_row(f, d) ==
    [ k \in DOMAIN f.vocabulary_ |->
        IF term_count(d, f.vocabulary_[k]) = 0 THEN <<"tfidf", 0, 0, 0>>
        ELSE <<"tfidf", term_count(d, f.vocabulary_[k]), f.idf_[k][1], f.idf_[k][2]>> ]

\* np.array(..., dtype=float), line 170: a value as a float, <<"num", p, q>> for p / q
as_float(k, v) == IF k = "comment_ratio" THEN <<"num", v[1], v[2]>> ELSE <<"num", v, 1>>

\* (a row built from the text's own keys instead of the frozen names)
numeric_row_own_keys(f, d) ==
    LET feats == numeric_features(d)
        own == sorted_names(DOMAIN feats)
    IN  [ k \in DOMAIN own |-> as_float(own[k], feats[own[k]]) ]

\* [feats.get(k, 0) for k in self.numeric_feature_names], lines 168-169
numeric_row(f, d) ==
    LET feats == numeric_features(d)
    IN  [ k \in DOMAIN f.numeric_feature_names |->
            IF f.numeric_feature_names[k] \in DOMAIN feats
            THEN as_float(f.numeric_feature_names[k], feats[f.numeric_feature_names[k]])
            ELSE <<"num", 0, 1>> ]

\* (a transform that a text that does not parse makes raise)
transform_raises_on_parse_error(f, codes) ==
    \/ ~f.tfidf_fitted
    \/ \E i \in DOMAIN codes : ast_parse(codes[i]) = ParseError
    \/ f.names_is_none
    \/ codes = <<>>

\* (a transform that does not ask whether the extractor is fitted)
transform_raises_fitted_or_not(f, codes) ==
    \/ \E i \in DOMAIN codes : numeric_features_raises(codes[i])
    \/ codes = <<>>

\* Whether transform(codes) raises: the vocabulary is not fitted (line 165), a
\* traversal raises (line 168), the names are None (line 169), or the batch is
\* empty (np.hstack of a 2-d and a 1-d array, line 171).
transform_raises(f, codes) ==
    \/ ~f.tfidf_fitted
    \/ \E i \in DOMAIN codes : numeric_features_raises(codes[i])
    \/ f.names_is_none
    \/ codes = <<>>

\* (a row with the numeric values before the term weights)
transform_numeric_first(f, codes) ==
    [ i \in DOMAIN codes |-> numeric_row(f, codes[i]) \o tfidf_row(f, codes[i]) ]

\* transform, lines 163-171, when it returns
transform(f, codes) ==
    [ i \in DOMAIN codes |-> tfidf_row(f, codes[i]) \o numeric_row(f, codes[i]) ]

\* (a transform that fits the vocabulary on its argument: fit_transform for
\* transform at line 165)
extractor_after_transform_refits(f, codes) ==
    IF kept_vocabularies(codes) = {{}} THEN f
    ELSE LET v == SortTerms(CHOOSE K \in kept_vocabularies(codes) : TRUE)
         IN  [f EXCEPT !.vocabulary_ = v,
                       !.idf_ = [k \in DOMAIN v |-> idf_of(codes, v[k])]]

\* (a transform that takes the numeric names from the records of its argument)
extractor_after_transform_resamples_names(f, codes) ==
    [f EXCEPT !.numeric_feature_names = sorted_names(sample_keys(codes))]

\* transform assigns no attribute of self (lines 163-171)
extractor_after_transform(f, codes) == f

Batches == UNION { [1..n -> Docs] : n \in 0..MaxBatch }

NoMemo == [set |-> FALSE, since |-> 0, doc |-> doc_empty, row |-> <<>>]

\* The memo after one more call: since counts the calls after the one it
\* holds, as 0, 1 or more.
Older(m) == IF m.set /\ m.since < 2 THEN [m EXCEPT !.since = m.since + 1] ELSE m
NoOut == [raised |-> FALSE, rows |-> <<>>]

NoFit == [set |-> FALSE, sample |-> {}, late |-> {}]

\* The corpus c as the history keeps it: the texts at its first ten places and
\* the texts at the places after them.
fitted_on(c) ==
    [ set |-> TRUE,
      sample |-> { c[i] : i \in { j \in DOMAIN c : j <= 10 } },
      late |-> { c[i] : i \in { j \in DOMAIN c : j > 10 } } ]

\* fe.fit(codes), on an extractor that is not fitted yet
Fit ==
    /\ ~fe.tfidf_fitted
    /\ \E c \in Corpora : \E o \in FitTable[c] :
          /\ fe' = fit(fe, o)
          /\ lastOut' = [raised |-> fit_raises(o), rows |-> <<>>]
          /\ fitted' = IF fit_raises(o) THEN fitted ELSE fitted_on(c)
    /\ lastOp' = "fit"
    /\ lastArg' = <<>>
    /\ memo' = NoMemo
    /\ UNCHANGED <<clf, disk, saved, tokVars, astVars, synVars, surfVars, hostVars>>

\* fe.transform(codes)
Transform ==
    /\ \E codes \in Batches :
          /\ lastArg' = codes
          /\ IF transform_raises(fe, codes)
             THEN /\ lastOut' = [raised |-> TRUE, rows |-> <<>>]
                  /\ fe' = fe
                  /\ memo' = Older(memo)
             ELSE /\ lastOut' = [raised |-> FALSE, rows |-> transform(fe, codes)]
                  /\ fe' = extractor_after_transform(fe, codes)
                  /\ \/ memo' = Older(memo)
                     \/ /\ ~memo.set
                        /\ \E i \in DOMAIN codes :
                              memo' = [set |-> TRUE, since |-> 0, doc |-> codes[i],
                                       row |-> lastOut'.rows[i]]
    /\ lastOp' = "transform"
    /\ UNCHANGED <<clf, disk, saved, fitted, tokVars, astVars, synVars, surfVars, hostVars>>

\* fe.transform(codes) with a batch of up to MaxBatchTexts texts, as the one
\* transform of a run.
TextBatches == UNION { [1..n -> Docs] : n \in 0..MaxBatchTexts }

TransformBatch ==
    /\ lastOp # "transform"
    /\ \E codes \in TextBatches :
          /\ lastArg' = codes
          /\ IF transform_raises(fe, codes)
             THEN /\ lastOut' = [raised |-> TRUE, rows |-> <<>>]
                  /\ fe' = fe
             ELSE /\ lastOut' = [raised |-> FALSE, rows |-> transform(fe, codes)]
                  /\ fe' = extractor_after_transform(fe, codes)
    /\ lastOp' = "transform"
    /\ UNCHANGED <<clf, disk, saved, memo, fitted, tokVars, astVars, synVars, surfVars, hostVars>>

(***************************************************************************)
(* The classifier: RandomForestClassifier as the code uses it.             *)
(***************************************************************************)
NoClassifier ==
    [ trained |-> FALSE, n_features_in_ |-> 0, classes_ |-> <<>>, estimators_ |-> <<>> ]

\* np.unique(y): the classes of the labels, ascending
classes_of(y) ==
    LET has(c) == \E i \in DOMAIN y : y[i] = c
    IN  (IF has(0) THEN <<0>> ELSE <<>>) \o (IF has(1) THEN <<1>> ELSE <<>>)

\* A tree tests one entry of the row for zero and ends in a leaf; a leaf holds
\* the class counts of the training rows that reached it.  The trees a fit on
\* rows of width w and the classes cs may grow are sampled by two of them.
trees_for(w, cs) ==
    IF Len(cs) = 2
    THEN { [feature |-> 1, if_zero |-> <<1, 0>>, if_positive |-> <<0, 1>>],
           [feature |-> w, if_zero |-> <<1, 1>>, if_positive |-> <<1, 0>>] }
    ELSE { [feature |-> 1, if_zero |-> <<1>>, if_positive |-> <<1>>] }

\* clf.fit(X_train, y_train), lines 188-189: the classifiers it may leave
rf_fit(X, y) ==
    { [ trained |-> TRUE, n_features_in_ |-> Len(X[1]), classes_ |-> classes_of(y),
        estimators_ |-> forest ]
      : forest \in [1..NumTrees -> trees_for(Len(X[1]), classes_of(y))] }

\* The leaf a row reaches in a tree.
leaf_of(t, row) == IF row[t.feature][2] = 0 THEN t.if_zero ELSE t.if_positive

RECURSIVE SumSeq(_)
SumSeq(q) == IF q = <<>> THEN 0 ELSE Head(q) + SumSeq(Tail(q))

RECURSIVE ProdSeq(_)
ProdSeq(q) == IF q = <<>> THEN 1 ELSE Head(q) * ProdSeq(Tail(q))

\* predict_proba of one row: per class, the mean over the trees of the leaf's
\* class fraction.
predict_proba(c, row) ==
    LET leaves == [ t \in DOMAIN c.estimators_ |-> leaf_of(c.estimators_[t], row) ]
        sizes == [ t \in DOMAIN leaves |-> SumSeq(leaves[t]) ]
        common == ProdSeq(sizes)
    IN  [ k \in DOMAIN c.classes_ |->
            Ratio(SumSeq([ t \in DOMAIN leaves |-> leaves[t][k] * (common \div sizes[t]) ]),
                  common * Len(leaves)) ]

RatioLess(a, b) == a[1] * b[2] < b[1] * a[2]

\* predict of one row: the class of the largest probability, the first of equals
predict(c, row) ==
    LET p == predict_proba(c, row)
        best == CHOOSE k \in DOMAIN p :
                    /\ \A m \in DOMAIN p : ~RatioLess(p[k], p[m])
                    /\ \A m \in 1..(k - 1) : RatioLess(p[m], p[k])
    IN  c.classes_[best]

\* Whether predict / predict_proba raise on rows of this width.
predict_raises(c, width) == ~c.trained \/ width # c.n_features_in_

(***************************************************************************)
(* joblib.dump and joblib.load, lines 196 and 202: the pickled bundle       *)
(* holds each attribute under its name, the vocabulary as the dict of term  *)
(* to column index that the vectorizer keeps.                               *)
(***************************************************************************)
\* (a dump that writes the extractor and leaves the classifier of the file that
\* is already there)
pickle_dumps_extractor_only(f, c) ==
    LET old(name, new) ==
            IF disk # <<>> /\ \E i \in DOMAIN disk : disk[i][1] = name
            THEN disk[CHOOSE i \in DOMAIN disk : disk[i][1] = name][2]
            ELSE new
    IN  << <<"tfidf_fitted", f.tfidf_fitted>>,
           <<"vocabulary_", { <<f.vocabulary_[k], k - 1>> : k \in DOMAIN f.vocabulary_ }>>,
           <<"idf_", f.idf_>>,
           <<"names_is_none", f.names_is_none>>,
           <<"numeric_feature_names", f.numeric_feature_names>>,
           <<"trained", old("trained", c.trained)>>,
           <<"n_features_in_", old("n_features_in_", c.n_features_in_)>>,
           <<"classes_", old("classes_", c.classes_)>>,
           <<"estimators_", old("estimators_", c.estimators_)>> >>

pickle_dumps(f, c) ==
    << <<"tfidf_fitted", f.tfidf_fitted>>,
       <<"vocabulary_", { <<f.vocabulary_[k], k - 1>> : k \in DOMAIN f.vocabulary_ }>>,
       <<"idf_", f.idf_>>,
       <<"names_is_none", f.names_is_none>>,
       <<"numeric_feature_names", f.numeric_feature_names>>,
       <<"trained", c.trained>>,
       <<"n_features_in_", c.n_features_in_>>,
       <<"classes_", c.classes_>>,
       <<"estimators_", c.estimators_>> >>

pickled(bytes, name) == (CHOOSE i \in DOMAIN bytes : bytes[i][1] = name)

\* (a load that leaves the numeric names of a fresh extractor)
pickle_loads_fe_without_names(bytes) ==
    [ tfidf_fitted |-> bytes[pickled(bytes, "tfidf_fitted")][2],
      vocabulary_ |->
          LET dict == bytes[pickled(bytes, "vocabulary_")][2]
          IN  [ k \in 1..Cardinality(dict) |-> (CHOOSE e \in dict : e[2] = k - 1)[1] ],
      idf_ |-> bytes[pickled(bytes, "idf_")][2],
      names_is_none |-> TRUE,
      numeric_feature_names |-> <<>> ]

pickle_loads_fe(bytes) ==
    [ tfidf_fitted |-> bytes[pickled(bytes, "tfidf_fitted")][2],
      vocabulary_ |->
          LET dict == bytes[pickled(bytes, "vocabulary_")][2]
          IN  [ k \in 1..Cardinality(dict) |-> (CHOOSE e \in dict : e[2] = k - 1)[1] ],
      idf_ |-> bytes[pickled(bytes, "idf_")][2],
      names_is_none |-> bytes[pickled(bytes, "names_is_none")][2],
      numeric_feature_names |-> bytes[pickled(bytes, "numeric_feature_names")][2] ]

pickle_loads_clf(bytes) ==
    [ trained |-> bytes[pickled(bytes, "trained")][2],
      n_features_in_ |-> bytes[pickled(bytes, "n_features_in_")][2],
      classes_ |-> bytes[pickled(bytes, "classes_")][2],
      estimators_ |-> bytes[pickled(bytes, "estimators_")][2] ]

NoFile == <<>>

\* The attributes a bundle file holds.
PickledNames ==
    { "tfidf_fitted", "vocabulary_", "idf_", "names_is_none", "numeric_feature_names",
      "trained", "n_features_in_", "classes_", "estimators_" }

\* joblib.load(path), line 202, raises when there is no file or when the
\* stream ends before the objects are complete.
pickle_loads_raises(bytes) ==
    \/ bytes = NoFile
    \/ \E name \in PickledNames : \A i \in DOMAIN bytes : bytes[i][1] # name

\* The file cut short: its last object is missing.
truncated(bytes) == SubSeq(bytes, 1, Len(bytes) - 1)

\* The file with one stored number changed: the stream is still a complete
\* pickle, which holds no checksum.
altered(bytes) ==
    [ i \in DOMAIN bytes |->
        IF bytes[i][1] = "idf_"
        THEN <<"idf_", [ k \in DOMAIN bytes[i][2] |->
                          IF k = 1 THEN <<bytes[i][2][k][1] + 1, bytes[i][2][k][2]>>
                          ELSE bytes[i][2][k] ]>>
        ELSE bytes[i] ]

(***************************************************************************)
(* train_and_evaluate, lines 181-198.                                      *)
(***************************************************************************)
\* What train_test_split (line 182) hands on: the training texts and labels and
\* the held-out texts and labels.
TrainingSets ==
    { [ train |-> <<doc_assign, doc_broken>>, y_train |-> <<0, 1>>,
        test |-> <<doc_call>>, y_test |-> <<1>> ],
      [ train |-> Repeat(doc_broken, SamplePrefix) \o <<doc_call>>,
        y_train |-> Repeat(1, SamplePrefix) \o <<0>>,
        test |-> <<doc_assign, doc_broken, doc_broken>>, y_test |-> <<0, 1, 1>> ],
      [ train |-> <<doc_call, doc_assign>>, y_train |-> <<0, 0>>,
        test |-> <<doc_empty>>, y_test |-> <<1>> ],
      [ train |-> <<doc_assign>>, y_train |-> <<1>>,
        test |-> <<doc_assign>>, y_test |-> <<1>> ],
      [ train |-> <<doc_empty>>, y_train |-> <<1>>,
        test |-> <<doc_assign>>, y_test |-> <<0>> ] }

\* (a report that accepts any number of classes)
report_never_raises(y_test, y_pred) == FALSE

\* classification_report with two target_names (line 194) raises unless the
\* held-out and the predicted labels hold two classes between them.
report_raises(y_test, y_pred) == Len(classes_of(y_test \o y_pred)) # 2

\* accuracy_score, line 192
accuracy_score(y_test, y_pred) ==
    Ratio(Cardinality({ i \in DOMAIN y_test : y_test[i] = y_pred[i] }), Len(y_test))

\* The run for one split t, one vocabulary outcome o of line 185 and one
\* classifier c of line 189: where it raises, or "" when it runs to its end.
train_raises_at(t, o, c) ==
    LET f == fit(new_extractor, o)
    IN  IF fit_raises(o) \/ transform_raises(f, t.train) THEN "fit_transform"
        ELSE IF transform_raises(f, t.test) THEN "transform"
        ELSE IF predict_raises(c, Len(transform(f, t.test)[1])) THEN "predict"
        ELSE IF report_raises(t.y_test,
                              [ i \in DOMAIN t.test |-> predict(c, transform(f, t.test)[i]) ])
             THEN "classification_report"
        ELSE ""

\* The classifiers line 189 may leave for split t and vocabulary outcome o.
trained_classifiers(t, o) ==
    IF fit_raises(o) \/ transform_raises(fit(new_extractor, o), t.train)
    THEN {NoClassifier}
    ELSE rf_fit(transform(fit(new_extractor, o), t.train), t.y_train)

\* The runs of train_and_evaluate: for each split, what it may compute.
TrainTable ==
    [ t \in TrainingSets |->
        { [ fe |-> fit(new_extractor, o), clf |-> c, raised_at |-> train_raises_at(t, o, c) ]
          : <<o, c>> \in { x \in FitTable[t.train] \X
                                  UNION { trained_classifiers(t, o2) : o2 \in FitTable[t.train] } :
                             x[2] \in trained_classifiers(t, x[1]) } } ]

\* train_and_evaluate(snippets, labels): the bundle is dumped (line 196) when
\* nothing raised before; its extractor and classifier are locals of the run.
\* (a run that writes the bundle before the report of line 194)
bundle_written_before_report(r) == r.raised_at \in {"", "classification_report"}

\* Whether run r reaches joblib.dump, line 196: nothing before it has raised.
bundle_written(r) == r.raised_at = ""

TrainAndEvaluate ==
    /\ \E t \in TrainingSets : \E r \in TrainTable[t] :
          /\ lastArg' = <<t>>
          /\ lastOut' = [raised |-> r.raised_at # "", rows |-> <<>>]
          /\ IF bundle_written(r)
             THEN /\ disk' = pickle_dumps(r.fe, r.clf)
                  /\ saved' = [fe |-> r.fe, clf |-> r.clf,
                               runs |-> IF saved.runs < 2 THEN saved.runs + 1 ELSE 2]
             ELSE UNCHANGED <<disk, saved>>
    /\ lastOp' = "train"
    /\ UNCHANGED <<fe, clf, memo, fitted, tokVars, astVars, synVars, surfVars, hostVars>>

(***************************************************************************)
(* load_model, lines 201-203, and the analysis of a text, lines 206-213    *)
(* and 258-260.                                                            *)
(***************************************************************************)
LoadModel ==
    /\ IF pickle_loads_raises(disk)
       THEN /\ lastOut' = [raised |-> TRUE, rows |-> <<>>]
            /\ UNCHANGED <<fe, clf, fitted>>
       ELSE /\ lastOut' = [raised |-> FALSE, rows |-> <<>>]
            /\ fe' = pickle_loads_fe(disk)
            /\ clf' = pickle_loads_clf(disk)
            /\ fitted' = NoFit
    /\ lastOp' = "load"
    /\ lastArg' = <<>>
    /\ memo' = NoMemo
    /\ UNCHANGED <<disk, saved, tokVars, astVars, synVars, surfVars, hostVars>>

\* Whether the analysis of text d with extractor f and classifier c raises:
\* in transform, in predict, or at predict_proba(X)[0][1] when the classifier
\* knows one class only.
analysis_raises(f, c, d) ==
    \/ transform_raises(f, <<d>>)
    \/ predict_raises(c, Len(transform(f, <<d>>)[1]))
    \/ Len(c.classes_) < 2

\* (a label that names the other class)
analysis_label_of_other_class(pred) == IF pred = 1 THEN "REAL" ELSE "HALLUCINATED"

\* 'HALLUCINATED' if pred == 1 else 'REAL', lines 213 and 262
analysis_label(pred) == IF pred = 1 THEN "HALLUCINATED" ELSE "REAL"

\* feats of lines 251-253, then X = fe.transform([code]);
\* pred = model.predict(X)[0]; prob = model.predict_proba(X)[0][1]
analysis(f, c, d) ==
    LET row == transform(f, <<d>>)[1]
    IN  [ structural_features |-> ast_features(ast_parse(d)),
          surface_features |-> surface_features(d.chars),
          row |-> row,
          label |-> analysis_label(predict(c, row)),
          probability |-> predict_proba(c, row)[2] ]

\* One text analysed with the pair the caller holds.
Analyze ==
    /\ \E d \in Docs :
          /\ lastArg' = <<d>>
          /\ IF analysis_raises(fe, clf, d)
             THEN /\ lastOut' = [raised |-> TRUE, rows |-> <<>>]
                  /\ fe' = fe
             ELSE /\ lastOut' = [raised |-> FALSE, rows |-> <<analysis(fe, clf, d)>>]
                  /\ fe' = extractor_after_transform(fe, <<d>>)
    /\ lastOp' = "analyze"
    /\ UNCHANGED <<clf, disk, saved, memo, fitted, tokVars, astVars, synVars, surfVars, hostVars>>

\* The file at the path changes outside the program: it is removed, cut short,
\* or one stored number in it changes.
CorruptBundle ==
    /\ disk = pickle_dumps(saved.fe, saved.clf)
    /\ disk' \in { NoFile, truncated(disk), altered(disk) }
    /\ lastOp' = "corrupt"
    /\ lastArg' = <<>>
    /\ lastOut' = NoOut
    /\ UNCHANGED <<fe, clf, saved, memo, fitted, tokVars, astVars, synVars, surfVars, hostVars>>

NewPipeline ==
    /\ fe = new_extractor /\ clf = NoClassifier /\ disk = NoFile
    /\ saved = [fe |-> new_extractor, clf |-> NoClassifier, runs |-> 0]
    /\ lastArg = <<>> /\ lastOut = NoOut /\ memo = NoMemo /\ fitted = NoFit

VecIdle == NewPipeline /\ lastOp = "off"

(***************************************************************************)
(* The synthetic data generator, lines 29-73.                              *)
(***************************************************************************)
\* The generator of the random module, as a congruential generator of full
\* period over RngStates.
RngStates == 0..15

rng_next(s) == (5 * s + 3) % 16

\* random.seed(seed), line 64
random_seed(seed) == (7 * seed + 1) % 16

\* random.choice(seq) on the draw u
random_choice(seq, u) == seq[((u * Len(seq)) \div 16) + 1]

\* random.random() < tenths / 10 on the draw u
random_below(u, tenths) == 10 * u < tenths * 16

\* str(i)
str(i) == <<"0", "1", "2", "3", "4", "5", "6", "7", "8", "9">>[i + 1]

\* lines 31-38
templates ==
    << "def compute_sum(nums: list[int]) -> int:\n    return sum(nums)\n",
       "class MyClass:\n    def __init__(self, x):\n        self.x = x\n    def get(self):\n        return self.x\n",
       "import math\n\ndef circle_area(r: float) -> float:\n    return math.pi * r * r\n",
       "def read_file(path):\n    with open(path, 'r') as f:\n        return f.read()\n",
       "# simple example\ndef multiply(a, b):\n    return a * b\n",
       "from collections import Counter\n\ndef top_k(items, k=3):\n    c = Counter(items)\n    return c.most_common(k)\n" >>

\* lines 48-54
patterns ==
    << "def transform_data(df):\n    return df.whenify().transmute()\n",
       "from fake_lib import hypercall\n\ndef process(x):\n    return hypercall(x, mode='super')\n",
       "def compute(x):\n    return vectorized_thingy(x)\n",
       "def model_predict(data):\n    return oracle_predictor(data)\n",
       "def foo():\n    unknown = MagicTransformer().apply(foo=42)\n    return unknown\n" >>

\* synthetic_real_code_snippet(i) from generator state s: the text, as the
\* pieces it is concatenated from, and the state it leaves.
synthetic_real_code_snippet(i, s) ==
    LET u1 == rng_next(s)
        u2 == rng_next(u1)
        t == <<random_choice(templates, u1)>>
    IN  [ text |-> IF random_below(u2, 3) THEN t \o <<"\n# generated id: ", str(i)>> ELSE t,
          rng |-> u2 ]

\* synthetic_hallucinated_code_snippet(i) from generator state s
synthetic_hallucinated_code_snippet(i, s) ==
    LET u1 == rng_next(s)
        u2 == rng_next(u1)
        u3 == rng_next(u2)
        t == <<random_choice(patterns, u1)>>
        t2 == IF random_below(u2, 4) THEN <<"import numpy as np\n">> \o t ELSE t
    IN  [ text |-> IF random_below(u3, 2) THEN t2 \o <<"\n# hallucination id: ", str(i)>> ELSE t2,
          rng |-> u3 ]

\* The loop of lines 66-68, from its index i on.
RECURSIVE real_loop(_, _, _)
real_loop(i, n, s) ==
    IF i >= n THEN [snippets |-> <<>>, rng |-> s]
    ELSE LET r == synthetic_real_code_snippet(i, s)
             rest == real_loop(i + 1, n, r.rng)
         IN  [snippets |-> <<r.text>> \o rest.snippets, rng |-> rest.rng]

\* The loop of lines 69-71, from its index i on.
RECURSIVE hallucinated_loop(_, _, _)
hallucinated_loop(i, n, s) ==
    IF i >= n THEN [snippets |-> <<>>, rng |-> s]
    ELSE LET r == synthetic_hallucinated_code_snippet(i, s)
             rest == hallucinated_loop(i + 1, n, r.rng)
         IN  [snippets |-> <<r.text>> \o rest.snippets, rng |-> rest.rng]

\* The permutation that shuffle draws for n items: its own generator, seeded
\* with random_state, swaps each position from the last down with a drawn
\* position at or before it.
RECURSIVE fisher_yates(_, _, _)
fisher_yates(idx, i, s) ==
    IF i < 2 THEN idx
    ELSE LET u == rng_next(s)
             j == ((u * i) \div 16) + 1
         IN  fisher_yates([idx EXCEPT ![i] = idx[j], ![j] = idx[i]], i - 1, u)

permutation(n, random_state) ==
    fisher_yates([k \in 1..n |-> k], n, (3 * random_state + 2) % 16)

\* (a shuffle that draws a permutation for each list)
shuffle_each_list_on_its_own(a, b, random_state) ==
    [ snippets |-> [ k \in DOMAIN a |-> a[permutation(Len(a), random_state)[k]] ],
      labels |-> [ k \in DOMAIN b |-> b[permutation(Len(b), random_state + 1)[k]] ] ]

\* shuffle(snippets, labels, random_state=seed), line 72: one permutation
\* indexes both lists
shuffle(a, b, random_state) ==
    [ snippets |-> [ k \in DOMAIN a |-> a[permutation(Len(a), random_state)[k]] ],
      labels |-> [ k \in DOMAIN b |-> b[permutation(Len(a), random_state)[k]] ] ]

\* Lines 65-73, from the generator state s.
dataset_from(n_real, n_hall, seed, s) ==
    LET real == real_loop(0, n_real, s)
        hall == hallucinated_loop(0, n_hall, real.rng)
        out == shuffle(real.snippets \o hall.snippets,
                       [ k \in 1..n_real |-> 0 ] \o [ k \in 1..n_hall |-> 1 ], seed)
    IN  [ snippets |-> out.snippets, labels |-> out.labels, rng |-> hall.rng ]

\* (a synthetic_dataset that does not seed the generator)
synthetic_dataset_unseeded(n_real, n_hall, seed, s) == dataset_from(n_real, n_hall, seed, s)

\* synthetic_dataset(n_real, n_hall, seed), called when the generator is in
\* state s: line 64 seeds it first.
synthetic_dataset(n_real, n_hall, seed, s) ==
    dataset_from(n_real, n_hall, seed, random_seed(seed))

Seeds == {1, 42}

SynTable ==
    [ a \in (0..MaxCount) \X (0..MaxCount) \X Seeds \X RngStates |->
        synthetic_dataset(a[1], a[2], a[3], a[4]) ]

NoDataset == [snippets |-> <<>>, labels |-> <<>>]
NoSynMemo == [set |-> FALSE, since |-> 0, args |-> <<>>, out |-> NoDataset]

SyntheticDataset ==
    /\ \E n_real \in 0..MaxCount : \E n_hall \in 0..MaxCount : \E seed \in Seeds :
          LET r == SynTable[<<n_real, n_hall, seed, rng>>]
          IN  /\ rng' = r.rng
              /\ synArgs' = <<n_real, n_hall, seed>>
              /\ synOut' = [snippets |-> r.snippets, labels |-> r.labels]
              /\ \/ synMemo' = Older(synMemo)
                 \/ /\ ~synMemo.set
                    /\ synMemo' = [set |-> TRUE, since |-> 0, args |-> synArgs', out |-> synOut']
    /\ synOp' = "synthetic_dataset"
    /\ UNCHANGED <<tokVars, astVars, vecVars, surfVars, hostVars>>

SyntheticRealCodeSnippet ==
    /\ \E i \in 0..MaxCount :
          LET r == synthetic_real_code_snippet(i, rng)
          IN  /\ rng' = r.rng
              /\ synArgs' = <<i>>
              /\ synOut' = [snippets |-> <<r.text>>, labels |-> <<>>]
    /\ synOp' = "synthetic_real_code_snippet"
    /\ synMemo' = Older(synMemo)
    /\ UNCHANGED <<tokVars, astVars, vecVars, surfVars, hostVars>>

SyntheticHallucinatedCodeSnippet ==
    /\ \E i \in 0..MaxCount :
          LET r == synthetic_hallucinated_code_snippet(i, rng)
          IN  /\ rng' = r.rng
              /\ synArgs' = <<i>>
              /\ synOut' = [snippets |-> <<r.text>>, labels |-> <<>>]
    /\ synOp' = "synthetic_hallucinated_code_snippet"
    /\ synMemo' = Older(synMemo)
    /\ UNCHANGED <<tokVars, astVars, vecVars, surfVars, hostVars>>

SynIdle ==
    /\ rng = 0 /\ synOp = "off" /\ synArgs = <<>> /\ synOut = NoDataset /\ synMemo = NoSynMemo

(***************************************************************************)
(* Specifications.                                                         *)
(***************************************************************************)
(***************************************************************************)
(* recommender_agent.py: the lazily loaded model of suggest_fix_ml, lines   *)
(* 27-29, 85-100 and 733-754.  Each caller is a thread; a step is one read   *)
(* or write of a global, or one call of from_pretrained.                     *)
(***************************************************************************)
Callers == 1..NumCallers

\* The values of the two globals: None, the string "ERROR", and the object a
\* from_pretrained call of caller t returned.
None == [is |-> "None", loaded_by |-> 0]
ERROR == [is |-> "ERROR", loaded_by |-> 0]
Pretrained(t) == [is |-> "object", loaded_by |-> t]

\* suggest_fix_ml(issue_text, code_context) is called, line 733
SuggestFixMl(t) ==
    /\ mlPc[t] = "idle"
    /\ \E ctx \in BOOLEAN : mlCtx' = [mlCtx EXCEPT ![t] = ctx]
    /\ mlPc' = [mlPc EXCEPT ![t] = "line88"]
    /\ mlOut' = [mlOut EXCEPT ![t] = "running"]
    /\ UNCHANGED <<ML_AVAILABLE, ML_MODEL, ML_TOKENIZER, mlLoads>>
    /\ UNCHANGED <<coreVars, orchVars, authVars>>

\* if not ML_AVAILABLE: return, lines 88-89
CheckAvailable(t) ==
    /\ mlPc[t] = "line88"
    /\ mlPc' = [mlPc EXCEPT ![t] = IF ML_AVAILABLE THEN "line91" ELSE "line738"]
    /\ UNCHANGED <<ML_AVAILABLE, ML_MODEL, ML_TOKENIZER, mlCtx, mlOut, mlLoads>>
    /\ UNCHANGED <<coreVars, orchVars, authVars>>

\* _ML_MODEL is None, line 91
model_is_none(m) == m = None

\* if _ML_MODEL is None, line 91
CheckModelIsNone(t) ==
    /\ mlPc[t] = "line91"
    /\ IF model_is_none(ML_MODEL)
       THEN /\ mlPc' = [mlPc EXCEPT ![t] = "line95"]
            /\ mlLoads' = mlLoads + 1
       ELSE /\ mlPc' = [mlPc EXCEPT ![t] = "line738"]
            /\ mlLoads' = mlLoads
    /\ UNCHANGED <<ML_AVAILABLE, ML_MODEL, ML_TOKENIZER, mlCtx, mlOut>>
    /\ UNCHANGED <<coreVars, orchVars, authVars>>

\* _ML_TOKENIZER = RobertaTokenizer.from_pretrained(model_name), line 95, or
\* the exception it raises
LoadTokenizer(t) ==
    /\ mlPc[t] = "line95"
    /\ \/ /\ ML_TOKENIZER' = Pretrained(t)
          /\ mlPc' = [mlPc EXCEPT ![t] = "line96"]
       \/ /\ ML_TOKENIZER' = ML_TOKENIZER
          /\ mlPc' = [mlPc EXCEPT ![t] = "line100"]
    /\ UNCHANGED <<ML_AVAILABLE, ML_MODEL, mlCtx, mlOut, mlLoads>>
    /\ UNCHANGED <<coreVars, orchVars, authVars>>

\* _ML_MODEL = T5ForConditionalGeneration.from_pretrained(model_name), line 96,
\* or the exception it raises
LoadModelWeights(t) ==
    /\ mlPc[t] = "line96"
    /\ \/ /\ ML_MODEL' = Pretrained(t)
          /\ mlPc' = [mlPc EXCEPT ![t] = "line738"]
       \/ /\ ML_MODEL' = ML_MODEL
          /\ mlPc' = [mlPc EXCEPT ![t] = "line100"]
    /\ UNCHANGED <<ML_AVAILABLE, ML_TOKENIZER, mlCtx, mlOut, mlLoads>>
    /\ UNCHANGED <<coreVars, orchVars, authVars>>

\* except Exception: _ML_MODEL = "ERROR", lines 98-100
LoadFailed(t) ==
    /\ mlPc[t] = "line100"
    /\ ML_MODEL' = ERROR
    /\ mlPc' = [mlPc EXCEPT ![t] = "line738"]
    /\ UNCHANGED <<ML_AVAILABLE, ML_TOKENIZER, mlCtx, mlOut, mlLoads>>
    /\ UNCHANGED <<coreVars, orchVars, authVars>>

\* if _ML_MODEL is None or _ML_MODEL == "ERROR" or not code_context: the
\* rule-based suggestion, lines 738-739
CheckFallback(t) ==
    /\ mlPc[t] = "line738"
    /\ IF ML_MODEL = None \/ ML_MODEL = ERROR \/ ~mlCtx[t]
       THEN /\ mlPc' = [mlPc EXCEPT ![t] = "idle"]
            /\ mlOut' = [mlOut EXCEPT ![t] = "rule_based"]
       ELSE /\ mlPc' = [mlPc EXCEPT ![t] = "line744"]
            /\ mlOut' = mlOut
    /\ UNCHANGED <<ML_AVAILABLE, ML_MODEL, ML_TOKENIZER, mlCtx, mlLoads>>
    /\ UNCHANGED <<coreVars, orchVars, authVars>>

\* lines 741-754: the suggestion of the model, or the rule-based one when it
\* is blank or when the tokenizer or the model raises
Generate(t) ==
    /\ mlPc[t] = "line744"
    /\ mlPc' = [mlPc EXCEPT ![t] = "idle"]
    /\ \E out \in {"ml", "rule_based"} : mlOut' = [mlOut EXCEPT ![t] = out]
    /\ UNCHANGED <<ML_AVAILABLE, ML_MODEL, ML_TOKENIZER, mlCtx, mlLoads>>
    /\ UNCHANGED <<coreVars, orchVars, authVars>>

(***************************************************************************)
(* orchestrator.py: run_all_agents, lines 227-294, and the wrappers of the   *)
(* agents, lines 70-106.  The runs of a process follow one another.          *)
(***************************************************************************)
NoResult == [status |-> "none", errors |-> <<>>, has_errors |-> FALSE]

NoSession == 0

\* run_all_agents(repo_path) is called; lines 236-240 return an error when the
\* path does not exist
RunAllAgents ==
    /\ orchPc \in {"idle", "returned", "raised"}
    /\ runs < MaxRuns
    /\ runs' = runs + 1
    /\ session_id' = NoSession
    /\ saa_err' = "" /\ scaa_err' = "" /\ hdva_err' = ""
    /\ invoked' = <<>>
    /\ \E path_exists \in BOOLEAN :
          IF path_exists
          THEN orchPc' = "line248" /\ result' = NoResult
          ELSE /\ orchPc' = "returned"
               /\ result' = [status |-> "error", errors |-> <<>>, has_errors |-> FALSE]
    /\ UNCHANGED <<analyze_hdva, created>>
    /\ UNCHANGED <<coreVars, mlVars, authVars>>

\* collect_python_files(repo_path, ...), lines 248-251, which returns the
\* files and a new session id, and lines 257-261
CollectPythonFiles ==
    /\ orchPc = "line248"
    /\ session_id' = Cardinality(created) + 1
    /\ created' = created \cup {Cardinality(created) + 1}
    /\ \E collected_files \in {"none", "some"} :
          IF collected_files = "none"
          THEN /\ orchPc' = "returned"
               /\ result' = [status |-> "error", errors |-> <<>>, has_errors |-> FALSE]
          ELSE orchPc' = "line266" /\ result' = result
    /\ UNCHANGED <<analyze_hdva, saa_err, scaa_err, hdva_err, invoked, runs>>
    /\ UNCHANGED <<coreVars, mlVars, authVars>>

\* (the wrapper without a session, run_scaa(repo_path) of lines 110-117: the
\* agent makes a session of its own)
RunScaa ==
    /\ orchPc = "line267"
    /\ invoked' = Append(invoked, <<"SCAA", Cardinality(created) + 1>>)
    /\ created' = created \cup {Cardinality(created) + 1}
    /\ \E raises \in BOOLEAN : scaa_err' = IF raises THEN "SCAA error" ELSE ""
    /\ orchPc' = "line268"
    /\ UNCHANGED <<analyze_hdva, session_id, saa_err, hdva_err, result, runs>>
    /\ UNCHANGED <<coreVars, mlVars, authVars>>

\* run_saa_with_session(repo_path, temp_folder_path, session_id, ...), line 266
\* and lines 70-81: the agent returns or raises an Exception
RunSaaWithSession ==
    /\ orchPc = "line266"
    /\ invoked' = Append(invoked, <<"SAA", session_id>>)
    /\ \E raises \in BOOLEAN : saa_err' = IF raises THEN "SAA error" ELSE ""
    /\ orchPc' = "line267"
    /\ UNCHANGED <<analyze_hdva, session_id, scaa_err, hdva_err, result, created, runs>>
    /\ UNCHANGED <<coreVars, mlVars, authVars>>

\* run_scaa_with_session(temp_folder_path, session_id, ...), line 267 and
\* lines 84-92
RunScaaWithSession ==
    /\ orchPc = "line267"
    /\ invoked' = Append(invoked, <<"SCAA", session_id>>)
    /\ \E raises \in BOOLEAN : scaa_err' = IF raises THEN "SCAA error" ELSE ""
    /\ orchPc' = "line268"
    /\ UNCHANGED <<analyze_hdva, session_id, saa_err, hdva_err, result, created, runs>>
    /\ UNCHANGED <<coreVars, mlVars, authVars>>

\* run_hdva_with_session(temp_folder_path, session_id, ...), line 268 and
\* lines 95-106: without analyze_hdva the wrapper returns its error at once
RunHdvaWithSession ==
    /\ orchPc = "line268"
    /\ invoked' = Append(invoked, <<"HDVA", session_id>>)
    /\ IF analyze_hdva = "None"
       THEN hdva_err' = "HDVA analyze_hdva() not implemented/importable"
       ELSE \E raises \in BOOLEAN : hdva_err' = IF raises THEN "HDVA error" ELSE ""
    /\ orchPc' = "line269"
    /\ UNCHANGED <<analyze_hdva, session_id, saa_err, scaa_err, result, created, runs>>
    /\ UNCHANGED <<coreVars, mlVars, authVars>>

\* generate_recommendations(session_id=session_id, ...), line 269: what it
\* raises leaves run_all_agents
GenerateRecommendations ==
    /\ orchPc = "line269"
    /\ invoked' = Append(invoked, <<"IERA", session_id>>)
    /\ \E raises \in BOOLEAN : orchPc' = IF raises THEN "raised" ELSE "line272"
    /\ UNCHANGED <<analyze_hdva, session_id, saa_err, scaa_err, hdva_err, result,
                   created, runs>>
    /\ UNCHANGED <<coreVars, mlVars, authVars>>

\* (a list of the errors of the first two agents)
collect_errors_without_hdva(e1, e2, e3) ==
    (IF e1 # "" THEN <<e1>> ELSE <<>>) \o (IF e2 # "" THEN <<e2>> ELSE <<>>)

\* errors, lines 272-278
collect_errors(e1, e2, e3) ==
    (IF e1 # "" THEN <<e1>> ELSE <<>>) \o (IF e2 # "" THEN <<e2>> ELSE <<>>)
        \o (IF e3 # "" THEN <<e3>> ELSE <<>>)

\* result, lines 281-292: the key 'errors' is set when there are errors
final_result(errors) ==
    [ status |-> IF errors = <<>> THEN "success" ELSE "partial_success",
      errors |-> errors,
      has_errors |-> errors # <<>> ]

\* lines 272-294
ReturnResult ==
    /\ orchPc = "line272"
    /\ result' = final_result(collect_errors(saa_err, scaa_err, hdva_err))
    /\ orchPc' = "returned"
    /\ UNCHANGED <<analyze_hdva, session_id, saa_err, scaa_err, hdva_err, created,
                   invoked, runs>>
    /\ UNCHANGED <<coreVars, mlVars, authVars>>

OrchIdle ==
    /\ analyze_hdva = "None" /\ orchPc = "off" /\ session_id = NoSession
    /\ saa_err = "" /\ scaa_err = "" /\ hdva_err = "" /\ result = NoResult
    /\ created = {} /\ invoked = <<>> /\ runs = 0

(***************************************************************************)
(* auth.py: create_or_update_oauth_user, lines 64-130, called by the OAuth   *)
(* callbacks of main.py (lines 92 and 128).  The collection 'users' is a     *)
(* Firestore collection that every server process shares; a step is one     *)
(* request to it.  A username is the list of the pieces it is joined from.   *)
(***************************************************************************)
Workers == 1..NumWorkers

Emails == {"a@x.org", "b@x.org"}

\* user_info["name"].replace(" ", "_").lower(), main.py lines 94 and 130
Usernames == { <<"ann">>, <<"ann", "1">> }

Providers == {"google", "github"}

NoDoc == [id |-> 0, email |-> "", username |-> <<>>, provider |-> ""]

NoArg == [email |-> "", username |-> <<>>, provider |-> ""]

\* create_or_update_oauth_user(email, username, provider, ...) is called
CreateOrUpdateOauthUser(w) ==
    /\ authPc[w] = "idle"
    /\ authCalls < MaxOAuthCalls
    /\ authCalls' = authCalls + 1
    /\ \E e \in Emails : \E u \in Usernames : \E pr \in Providers :
          authArg' = [authArg EXCEPT ![w] = [email |-> e, username |-> u, provider |-> pr]]
    /\ authPc' = [authPc EXCEPT ![w] = "line69"]
    /\ authDoc' = [authDoc EXCEPT ![w] = NoDoc]
    /\ authName' = [authName EXCEPT ![w] = <<>>]
    /\ authCounter' = [authCounter EXCEPT ![w] = 0]
    /\ UNCHANGED users
    /\ UNCHANGED <<coreVars, mlVars, orchVars>>

\* users_ref.where('email', '==', email).limit(1).stream(), lines 68-74 and
\* 76, and lines 103-104 of the else branch
QueryByEmail(w) ==
    /\ authPc[w] = "line69"
    /\ IF \E d \in users : d.email = authArg[w].email
       THEN /\ \E d \in { x \in users : x.email = authArg[w].email } :
                  authDoc' = [authDoc EXCEPT ![w] = d]
            /\ authPc' = [authPc EXCEPT ![w] = "line87"]
            /\ UNCHANGED <<authName, authCounter>>
       ELSE /\ authDoc' = authDoc
            /\ authPc' = [authPc EXCEPT ![w] = "line107"]
            /\ authName' = [authName EXCEPT ![w] = authArg[w].username]
            /\ authCounter' = [authCounter EXCEPT ![w] = 1]
    /\ UNCHANGED <<users, authArg, authCalls>>
    /\ UNCHANGED <<coreVars, mlVars, orchVars>>

\* user_ref.update(update_data), lines 78-99
UpdateUser(w) ==
    /\ authPc[w] = "line87"
    /\ users' = { IF d.id = authDoc[w].id
                  THEN [d EXCEPT !.provider = authArg[w].provider] ELSE d : d \in users }
    /\ authPc' = [authPc EXCEPT ![w] = "idle"]
    /\ UNCHANGED <<authArg, authDoc, authName, authCounter, authCalls>>
    /\ UNCHANGED <<coreVars, mlVars, orchVars>>

\* One round of the loop of lines 105-111: the query for the username, and the
\* next username when it is taken
QueryByUsername(w) ==
    /\ authPc[w] = "line107"
    /\ IF \E d \in users : d.username = authName[w]
       THEN /\ authName' = [authName EXCEPT
                               ![w] = authArg[w].username \o <<str(authCounter[w])>>]
            /\ authCounter' = [authCounter EXCEPT ![w] = authCounter[w] + 1]
            /\ authPc' = authPc
       ELSE /\ authPc' = [authPc EXCEPT ![w] = "line123"]
            /\ UNCHANGED <<authName, authCounter>>
    /\ UNCHANGED <<users, authArg, authDoc, authCalls>>
    /\ UNCHANGED <<coreVars, mlVars, orchVars>>

\* users_ref.add(new_user_data), lines 113-129: a document with a new id
AddUser(w) ==
    /\ authPc[w] = "line123"
    /\ users' = users \cup { [ id |-> Cardinality(users) + 1,
                               email |-> authArg[w].email,
                               username |-> authName[w],
                               provider |-> authArg[w].provider ] }
    /\ authPc' = [authPc EXCEPT ![w] = "idle"]
    /\ UNCHANGED <<authArg, authDoc, authName, authCounter, authCalls>>
    /\ UNCHANGED <<coreVars, mlVars, orchVars>>

AuthIdle ==
    /\ users = {}
    /\ authPc = [w \in Workers |-> "off"]
    /\ authArg = [w \in Workers |-> NoArg]
    /\ authDoc = [w \in Workers |-> NoDoc]
    /\ authName = [w \in Workers |-> <<>>]
    /\ authCounter = [w \in Workers |-> 0]
    /\ authCalls = 0

MlIdle ==
    /\ ML_AVAILABLE = FALSE /\ ML_MODEL = None /\ ML_TOKENIZER = None
    /\ mlPc = [t \in Callers |-> "off"]
    /\ mlCtx = [t \in Callers |-> FALSE]
    /\ mlOut = [t \in Callers |-> "none"]
    /\ mlLoads = 0

HostIdle == MlIdle /\ OrchIdle /\ AuthIdle

InitTokenizer ==
    /\ AstIdle
    /\ VecIdle
    /\ SynIdle
    /\ SurfIdle
    /\ HostIdle
    /\ code \in TokenizerInputs(MaxPieces, MaxQuotePieces)
    /\ tokens = <<>>
    /\ tokOutcome = "called"

NextTokenizer == TokenizeCode

SpecTokenizer == InitTokenizer /\ [][NextTokenizer]_vars

InitAst ==
    /\ TokIdle
    /\ VecIdle
    /\ SynIdle
    /\ SurfIdle
    /\ HostIdle
    /\ tree \in ParseOutcomes(MaxChildNodes, RecursionLimit + MaxOverLimit)
    /\ feat = <<>>
    /\ astOutcome = "called"

NextAst == AstFeatures

SpecAst == InitAst /\ [][NextAst]_vars

InitVectorizer ==
    /\ TokIdle
    /\ AstIdle
    /\ SynIdle
    /\ SurfIdle
    /\ HostIdle
    /\ NewPipeline
    /\ lastOp = "new"

NextVectorizer == Fit \/ Transform

SpecVectorizer == InitVectorizer /\ [][NextVectorizer]_vars

\* A fit and one transform of a batch of several texts.
NextBatch == Fit \/ TransformBatch

SpecBatch == InitVectorizer /\ [][NextBatch]_vars

NextBundle == TrainAndEvaluate \/ LoadModel \/ Analyze

SpecBundle == InitVectorizer /\ [][NextBundle]_vars

\* The pipeline with a bundle file that may change outside the program.
NextStorage == TrainAndEvaluate \/ LoadModel \/ Analyze \/ CorruptBundle

SpecStorage == InitVectorizer /\ [][NextStorage]_vars

\* The process starts with the generator in any state.
InitSynth ==
    /\ TokIdle
    /\ AstIdle
    /\ VecIdle
    /\ SurfIdle
    /\ HostIdle
    /\ rng \in RngStates
    /\ synOp = "new" /\ synArgs = <<>> /\ synOut = NoDataset /\ synMemo = NoSynMemo

NextSynth == SyntheticDataset \/ SyntheticRealCodeSnippet \/ SyntheticHallucinatedCodeSnippet

SpecSynth == InitSynth /\ [][NextSynth]_vars

\* The module as imported, lines 20-29, with callers about to call.
InitMlCache ==
    /\ TokIdle
    /\ AstIdle
    /\ VecIdle
    /\ SynIdle
    /\ SurfIdle
    /\ OrchIdle
    /\ AuthIdle
    /\ ML_AVAILABLE \in BOOLEAN
    /\ ML_MODEL = None /\ ML_TOKENIZER = None
    /\ mlPc = [t \in Callers |-> "idle"]
    /\ mlCtx = [t \in Callers |-> FALSE]
    /\ mlOut = [t \in Callers |-> "none"]
    /\ mlLoads = 0

NextMlCache ==
    \E t \in Callers :
        \/ SuggestFixMl(t)
        \/ CheckAvailable(t)
        \/ CheckModelIsNone(t)
        \/ LoadTokenizer(t)
        \/ LoadModelWeights(t)
        \/ LoadFailed(t)
        \/ CheckFallback(t)
        \/ Generate(t)

SpecMlCache == InitMlCache /\ [][NextMlCache]_vars

\* The orchestrator as imported, lines 37-50: analyze_hdva is the imported
\* function, or None when the import failed.
InitOrchestrator ==
    /\ TokIdle
    /\ AstIdle
    /\ VecIdle
    /\ SynIdle
    /\ SurfIdle
    /\ MlIdle
    /\ AuthIdle
    /\ analyze_hdva \in {"None", "function"}
    /\ orchPc = "idle" /\ session_id = NoSession
    /\ saa_err = "" /\ scaa_err = "" /\ hdva_err = "" /\ result = NoResult
    /\ created = {} /\ invoked = <<>> /\ runs = 0

NextOrchestrator ==
    \/ RunAllAgents
    \/ CollectPythonFiles
    \/ RunSaaWithSession
    \/ RunScaaWithSession
    \/ RunHdvaWithSession
    \/ GenerateRecommendations
    \/ ReturnResult

SpecOrchestrator == InitOrchestrator /\ [][NextOrchestrator]_vars

\* An empty collection and workers that wait for callbacks.
InitAuth ==
    /\ TokIdle
    /\ AstIdle
    /\ VecIdle
    /\ SynIdle
    /\ SurfIdle
    /\ MlIdle
    /\ OrchIdle
    /\ users = {}
    /\ authPc = [w \in Workers |-> "idle"]
    /\ authArg = [w \in Workers |-> NoArg]
    /\ authDoc = [w \in Workers |-> NoDoc]
    /\ authName = [w \in Workers |-> <<>>]
    /\ authCounter = [w \in Workers |-> 0]
    /\ authCalls = 0

NextAuth ==
    \E w \in Workers :
        \/ CreateOrUpdateOauthUser(w)
        \/ QueryByEmail(w)
        \/ UpdateUser(w)
        \/ QueryByUsername(w)
        \/ AddUser(w)

SpecAuth == InitAuth /\ [][NextAuth]_vars

InitSurface ==
    /\ TokIdle
    /\ AstIdle
    /\ VecIdle
    /\ SynIdle
    /\ HostIdle
    /\ text \in SurfaceInputs(MaxLines, MaxMixedLines)
    /\ surf = <<>>
    /\ surfOutcome = "called"

NextSurface == SurfaceFeatures

SpecSurface == InitSurface /\ [][NextSurface]_vars

(***************************************************************************)
(* Reference notions the claims are stated with.                           *)
(***************************************************************************)
\* s[i..j] is an identifier: a letter or underscore, then letters, digits,
\* underscores and dots.
IsIdentifierAt(s, i, j) ==
    /\ 1 <= i /\ i <= j /\ j <= Len(s)
    /\ s[i] \in IdentStartChars
    /\ \A k \in (i + 1)..j : s[k] \in IdentContChars

\* The identifiers of s that no other identifier of s contains.
MaximalRuns(s) ==
    { r \in (1..Len(s)) \X (1..Len(s)) :
        /\ IsIdentifierAt(s, r[1], r[2])
        /\ \A q \in (1..Len(s)) \X (1..Len(s)) :
              (IsIdentifierAt(s, q[1], q[2]) /\ q[1] <= r[1] /\ r[2] <= q[2]) => q = r }

\* ... as texts, from left to right.
IdentifierRuns(s) ==
    LET R == MaximalRuns(s)
    IN  [ k \in 1..Cardinality(R) |->
            LET r == CHOOSE x \in R : Cardinality({ y \in R : y[1] < x[1] }) = k - 1
            IN  SubSeq(s, r[1], r[2]) ]

\* The string literals of a text by the language's lexical rules: a literal opens
\* at a quote outside comments and literals, a backslash escapes the next
\* character, a single-quoted literal closes on its line, a triple-quoted one at
\* the next unescaped triple.  The position of the closing quote (0: unterminated).
RECURSIVE PyTripleClose(_, _, _)
PyTripleClose(s, j, q) ==
    IF j > Len(s) THEN 0
    ELSE IF s[j] = BSL THEN PyTripleClose(s, j + 2, q)
    ELSE IF TripleAt(s, j, q) THEN j + 2
    ELSE PyTripleClose(s, j + 1, q)

RECURSIVE PySingleClose(_, _, _)
PySingleClose(s, j, q) ==
    IF j > Len(s) THEN 0
    ELSE IF s[j] = BSL THEN PySingleClose(s, j + 2, q)
    ELSE IF s[j] = NL THEN 0
    ELSE IF s[j] = q THEN j
    ELSE PySingleClose(s, j + 1, q)

PyLiteralClose(s, i) ==
    IF TripleAt(s, i, s[i]) THEN PyTripleClose(s, i + 3, s[i])
    ELSE PySingleClose(s, i + 1, s[i])

\* Whether every literal of the text is terminated.
RECURSIVE PyLexesFrom(_, _, _)
PyLexesFrom(s, i, inComment) ==
    IF i > Len(s) THEN TRUE
    ELSE IF inComment THEN PyLexesFrom(s, i + 1, s[i] # NL)
    ELSE IF s[i] = HASH THEN PyLexesFrom(s, i + 1, TRUE)
    ELSE IF s[i] \in {SQ, DQ}
         THEN PyLiteralClose(s, i) # 0 /\ PyLexesFrom(s, PyLiteralClose(s, i) + 1, FALSE)
    ELSE PyLexesFrom(s, i + 1, FALSE)

PyLexes(s) == PyLexesFrom(s, 1, FALSE)

\* The text with each literal replaced by one space.
RECURSIVE PyBlankFrom(_, _, _)
PyBlankFrom(s, i, inComment) ==
    IF i > Len(s) THEN <<>>
    ELSE IF inComment THEN <<s[i]>> \o PyBlankFrom(s, i + 1, s[i] # NL)
    ELSE IF s[i] = HASH THEN <<s[i]>> \o PyBlankFrom(s, i + 1, TRUE)
    ELSE IF s[i] \in {SQ, DQ}
         THEN <<SP>> \o PyBlankFrom(s, PyLiteralClose(s, i) + 1, FALSE)
    ELSE <<s[i]>> \o PyBlankFrom(s, i + 1, FALSE)

PyBlank(s) == PyBlankFrom(s, 1, FALSE)

\* The names of the structural record.
StructuralCountNames ==
    { "num_functions", "num_classes", "num_imports", "max_depth",
      "ast_If_count", "ast_For_count", "ast_While_count",
      "ast_Call_count", "ast_Assign_count", "ast_Return_count" }

(***************************************************************************)
(* Claims.                                                                 *)
(***************************************************************************)
\* C1: every record ast_features returns has parsable 0 or 1, and a record with
\* parsable 0 holds 0 for function_count, class_count, import_count, max_depth
\* and each of the six per-kind counts.
C1_UnparsableRecordAllZero ==
    astOutcome = "returned" =>
        /\ "ast_parsable" \in DOMAIN feat
        /\ feat["ast_parsable"] \in {0, 1}
        /\ feat["ast_parsable"] = 0 =>
              \A k \in StructuralCountNames : k \in DOMAIN feat /\ feat[k] = 0

\* C2: ast_features never raises: for every text it returns a record, and when
\* parsing or traversing failed the record is the degenerate one, parsable 0 and
\* nothing but zeros.
C2_NeverRaises ==
    astOutcome \in {"returned", "raised"} =>
        /\ astOutcome = "returned"
        /\ (tree = ParseError \/ visit_raises(tree)) =>
              \A k \in DOMAIN feat : feat[k] = 0

\* C7: for every text (here: without comments, its literals terminated), the
\* tokens are exactly the identifiers outside its literals: none comes from
\* inside a quoted literal and none outside is lost.
C7_LiteralsStripped ==
    (tokOutcome = "returned" /\ PyLexes(code) /\ \A i \in DOMAIN code : code[i] # HASH) =>
        tokens = IdentifierRuns(PyBlank(code))

\* C8: tokenize_code returns, for every text, the maximal identifier runs of the
\* text without its literal regions, from left to right, one token per
\* occurrence.
C8_MaximalRunsInOrder ==
    tokOutcome = "returned" => tokens = IdentifierRuns(code_no_strings(code))

\* C8 witness: a returned list with a repeated token, a dotted token with a digit
\* and a literal that was removed.
C8_Witness ==
    /\ tokOutcome = "returned"
    /\ Len(tokens) = 2
    /\ tokens[1] = tokens[2]
    /\ \E i \in DOMAIN code : code[i] \in {SQ, DQ}

\* C3: after a fit, every row that transform returns, for every text of the
\* batch (parsable or not, empty or not), has as many entries as the
\* vocabulary has terms plus the numeric name order has names, and the batch
\* gets one row per text.
C3_RowLength ==
    (lastOp = "transform" /\ ~lastOut.raised) =>
        /\ Len(lastOut.rows) = Len(lastArg)
        /\ \A i \in DOMAIN lastOut.rows :
              Len(lastOut.rows[i]) = Len(fe.vocabulary_) + Len(fe.numeric_feature_names)

\* A row was returned for the text that does not parse, by an extractor whose
\* names hold the per-kind counts that the record of that text lacks.
C3_Witness ==
    /\ lastOp = "transform" /\ ~lastOut.raised
    /\ lastArg = <<doc_broken>>
    /\ Len(fe.vocabulary_) = MaxFeaturesTfidf
    /\ \E k \in DOMAIN fe.numeric_feature_names : fe.numeric_feature_names[k] = "ast_Call_count"

\* The fitted state of an extractor that C4 speaks of.
Frozen(f, g) ==
    /\ f.vocabulary_ = g.vocabulary_
    /\ f.idf_ = g.idf_
    /\ f.numeric_feature_names = g.numeric_feature_names

\* C4: once fit has completed, the vocabulary, its term weights and the
\* numeric name order of the extractor stay as they are through every later
\* transform and prediction (an analysis), every save (a training run writing
\* the bundle file), and a load hands back the state that was saved.
C4_FrozenAfterFit ==
    [][ /\ (fe.tfidf_fitted /\ lastOp' \in {"analyze", "train"}) => Frozen(fe, fe')
        /\ (lastOp' = "load" /\ ~lastOut'.raised) => Frozen(saved.fe, fe') ]_vars

\* An analysis returned on a loaded extractor after a later run has saved
\* another bundle.
C4_Witness ==
    /\ lastOp = "analyze" /\ ~lastOut.raised
    /\ fe.tfidf_fitted
    /\ ~Frozen(saved.fe, fe)

\* C5: on one fitted extractor, a transform of a text returns the row that an
\* earlier transform of the same text returned, whatever transforms happened
\* in between.
C5_TransformDeterministic ==
    (lastOp = "transform" /\ ~lastOut.raised /\ memo.set) =>
        \A i \in DOMAIN lastArg : lastArg[i] = memo.doc => lastOut.rows[i] = memo.row

\* The text of an earlier transform is transformed again, with another
\* transform between the two.
C5_Witness ==
    /\ lastOp = "transform" /\ ~lastOut.raised
    /\ memo.set /\ memo.doc = doc_call /\ memo.since = 2
    /\ lastArg = <<doc_call>>

\* C6: the pair that load_model returns gives, for every text, the transform
\* output, the label and the probability that the pair which was saved gives
\* (and raises where that one raises).
C6_RoundTrip ==
    (lastOp = "load" /\ ~lastOut.raised) =>
        \A d \in Docs :
            /\ transform_raises(fe, <<d>>) = transform_raises(saved.fe, <<d>>)
            /\ ~transform_raises(fe, <<d>>) => transform(fe, <<d>>) = transform(saved.fe, <<d>>)
            /\ analysis_raises(fe, clf, d) = analysis_raises(saved.fe, saved.clf, d)
            /\ ~analysis_raises(fe, clf, d) =>
                  analysis(fe, clf, d) = analysis(saved.fe, saved.clf, d)

\* A bundle with a capped vocabulary was loaded, and calls a text hallucinated.
C6_Witness ==
    /\ lastOp = "load" /\ ~lastOut.raised
    /\ Len(fe.vocabulary_) = MaxFeaturesTfidf
    /\ \E d \in Docs : /\ ~analysis_raises(fe, clf, d)
                        /\ analysis(fe, clf, d).label = "HALLUCINATED"

\* C9: a call synthetic_dataset(n_real, n_hall, seed) returns the ordered
\* snippets and labels that an earlier call with the same arguments returned,
\* whatever state the generator was in when either call began.
C9_Reproducible ==
    (synOp = "synthetic_dataset" /\ synMemo.set /\ synArgs = synMemo.args) =>
        synOut = synMemo.out

\* The arguments of an earlier call are called again, with other calls that
\* draw from the generator between the two.
C9_Witness ==
    /\ synOp = "synthetic_dataset"
    /\ synMemo.set /\ synMemo.since = 2 /\ synArgs = synMemo.args
    /\ synArgs[1] = MaxCount /\ synArgs[2] = MaxCount

\* The snippet holds a text of the real templates.
DrawnFromTemplates(t) ==
    \E j \in DOMAIN t : \E k \in DOMAIN templates : t[j] = templates[k]

\* The snippet holds a text of the hallucinated patterns.
DrawnFromPatterns(t) ==
    \E j \in DOMAIN t : \E k \in DOMAIN patterns : t[j] = patterns[k]

\* C10: synthetic_dataset(n_real, n_hall, seed) returns n_real + n_hall
\* snippets and as many labels, n_real of them 0 (REAL) and n_hall of them 1
\* (HALLUCINATED), and each snippet stands at the position of the label of the
\* template set it was drawn from.
C10_CountsAndPairing ==
    synOp = "synthetic_dataset" =>
        /\ Len(synOut.snippets) = synArgs[1] + synArgs[2]
        /\ Len(synOut.labels) = synArgs[1] + synArgs[2]
        /\ Cardinality({ i \in DOMAIN synOut.labels : synOut.labels[i] = 0 }) = synArgs[1]
        /\ Cardinality({ i \in DOMAIN synOut.labels : synOut.labels[i] = 1 }) = synArgs[2]
        /\ \A i \in DOMAIN synOut.snippets :
              /\ synOut.labels[i] = 0 <=> DrawnFromTemplates(synOut.snippets[i])
              /\ synOut.labels[i] = 1 <=> DrawnFromPatterns(synOut.snippets[i])

\* A returned dataset of both kinds that the shuffle has taken out of the
\* order of generation.
C10_Witness ==
    /\ synOp = "synthetic_dataset"
    /\ synArgs[1] = MaxCount /\ synArgs[2] = MaxCount
    /\ synOut.labels[1] = 1
    /\ synOut.labels[Len(synOut.labels)] = 0

\* The text of ten lines of which the first two are comments.
TenLinesTwoComments ==
    JoinLines([ i \in 1..10 |-> IF i <= 2 THEN <<HASH>> ELSE <<"a">> ]) \o <<NL>>

\* C11: surface_features returns for every text (it never raises), and its
\* comment_ratio is its n_comments divided by max(1, n_lines); for the empty
\* text that is 0 with n_lines 0, for ten lines with two comment lines it is
\* 0.2 (the fraction 1/5).
C11_CommentRatio ==
    /\ surfOutcome \in {"off", "called", "returned"}
    /\ surfOutcome = "returned" =>
          /\ surf["comment_ratio"] =
                Ratio(surf["n_comments"], IF surf["n_lines"] >= 1 THEN surf["n_lines"] ELSE 1)
          /\ text = <<>> => (surf["n_lines"] = 0 /\ surf["comment_ratio"] = <<0, 1>>)
          /\ (surf["n_lines"] = 10 /\ surf["n_comments"] = 2) =>
                surf["comment_ratio"] = <<1, 5>>
          /\ text = TenLinesTwoComments =>
                (surf["n_lines"] = 10 /\ surf["n_comments"] = 2)

\* The ten-line text with two comment lines was measured.
C11_Witness ==
    /\ surfOutcome = "returned"
    /\ text = TenLinesTwoComments
    /\ surf["comment_ratio"] = <<1, 5>>

\* fit has run to its end on the extractor: it has assigned the vocabulary and,
\* last, the numeric names.
FitCompleted(f) == f.tfidf_fitted /\ ~f.names_is_none

\* C12: a transform on an extractor on which fit has never completed raises to
\* the caller and returns no row; a transform of the text that does not parse
\* on a fitted extractor raises nothing and returns its row, so the two
\* outcomes differ.
C12_TransformBeforeFit ==
    /\ (lastOp = "transform" /\ ~FitCompleted(fe)) =>
          (lastOut.raised /\ lastOut.rows = <<>>)
    /\ (lastOp = "transform" /\ FitCompleted(fe) /\ lastArg = <<doc_broken>>) =>
          (~lastOut.raised /\ Len(lastOut.rows) = 1)

\* transform was called with a text on the extractor as constructed.
C12_Witness ==
    /\ lastOp = "transform"
    /\ fe = new_extractor
    /\ lastArg = <<doc_broken>>
    /\ lastOut.raised

\* The file at the path is not the bundle a training run wrote there: it is
\* missing, cut short or changed.
BundleDamaged == disk # pickle_dumps(saved.fe, saved.clf)

\* C13: when the bundle file is missing, unreadable or corrupt, load_model
\* raises to its caller (so that no label and no probability come from it).
C13_LoadFailureSurfaces ==
    (lastOp = "load" /\ BundleDamaged) => lastOut.raised

\* C14: a training run writes the bundle file only when fitting the
\* extractor, fitting the classifier and the evaluation have all returned; a run
\* in which one of them raises ends raising and leaves the file as it was,
\* absent or holding the bundle of an earlier run.
C14_BundleWrittenLast ==
    [][ lastOp' = "train" =>
          /\ lastOut'.raised => disk' = disk
          /\ ~lastOut'.raised =>
                /\ disk' = pickle_dumps(saved'.fe, saved'.clf)
                /\ FitCompleted(saved'.fe)
                /\ saved'.clf.trained ]_vars

\* A run raised in its evaluation while the file held the bundle of an
\* earlier run, and the file still holds that bundle.
C14_Witness ==
    /\ lastOp = "train" /\ lastOut.raised
    /\ lastArg[1].y_train = <<1>>
    /\ saved.runs >= 1
    /\ disk = pickle_dumps(saved.fe, saved.clf)

\* The labels of the corpus of a run, training and held-out part together,
\* are of one class.
SingleClassCorpus(t) == Len(classes_of(t.y_train \o t.y_test)) = 1

\* C15: a training run on a corpus whose labels are all of one class ends
\* raising, and leaves the bundle file as it was.
C15_SingleClassAborts ==
    [][ (lastOp' = "train" /\ SingleClassCorpus(lastArg'[1])) =>
          (lastOut'.raised /\ disk' = disk) ]_vars

\* A run on a corpus of one class raised although its texts gave the extractor
\* a vocabulary.
C15_Witness ==
    /\ lastOp = "train" /\ lastOut.raised
    /\ SingleClassCorpus(lastArg[1])
    /\ lastArg[1].train = <<doc_assign>>

\* The trees of classifier c whose leaf for the row holds more rows of class
\* 1 (HALLUCINATED) than of class 0: the trees that vote HALLUCINATED.
TreesVotingHallucinated(c, row) ==
    { t \in DOMAIN c.estimators_ :
        leaf_of(c.estimators_[t], row)[2] > leaf_of(c.estimators_[t], row)[1] }

\* The trees that vote REAL.
TreesVotingReal(c, row) ==
    { t \in DOMAIN c.estimators_ :
        leaf_of(c.estimators_[t], row)[1] >= leaf_of(c.estimators_[t], row)[2] }

\* C16: the label of an analysis is the class most trees vote for, and its
\* probability is the number of trees voting HALLUCINATED over the number of
\* trees.
C16_MajorityVote ==
    (lastOp = "analyze" /\ ~lastOut.raised) =>
        LET a == lastOut.rows[1]
            h == Cardinality(TreesVotingHallucinated(clf, a.row))
            r == Cardinality(TreesVotingReal(clf, a.row))
        IN  /\ a.probability = Ratio(h, Len(clf.estimators_))
            /\ h > r => a.label = "HALLUCINATED"
            /\ r > h => a.label = "REAL"

\* C17: a completed analysis of a text gives the label REAL or HALLUCINATED
\* and a probability between 0 and 1 that agree (HALLUCINATED only from one
\* half up, REAL only up to one half), with the structural and the surface
\* record of that text.
C17_AnalysisResult ==
    (lastOp = "analyze" /\ ~lastOut.raised) =>
        LET a == lastOut.rows[1]
            p == a.probability
        IN  /\ a.label \in {"REAL", "HALLUCINATED"}
            /\ p[2] > 0 /\ 0 <= p[1] /\ p[1] <= p[2]
            /\ a.label = "HALLUCINATED" => 2 * p[1] >= p[2]
            /\ a.label = "REAL" => 2 * p[1] <= p[2]
            /\ a.structural_features = ast_features(lastArg[1].parse)
            /\ a.surface_features = surface_features(lastArg[1].chars)

C17_Witness ==
    /\ lastOp = "analyze" /\ ~lastOut.raised
    /\ lastOut.rows[1].label = "HALLUCINATED"
    /\ lastOut.rows[1].probability = <<3, 4>>
    /\ lastOut.rows[1].structural_features["ast_parsable"] = 0

\* C18: the extractor and the classifier a load returns are those of one
\* training run, and the rows the loaded extractor builds are as long as the
\* rows the loaded classifier was fitted on, however many runs have saved to
\* the path before.
C18_LoadedPairFromOneRun ==
    (lastOp = "load" /\ ~lastOut.raised) =>
        /\ \E t \in TrainingSets : \E r \in TrainTable[t] :
              bundle_written(r) /\ r.fe = fe /\ r.clf = clf
        /\ \A d \in Docs :
              ~transform_raises(fe, <<d>>) =>
                  Len(transform(fe, <<d>>)[1]) = clf.n_features_in_

C18_Witness ==
    /\ lastOp = "load" /\ ~lastOut.raised
    /\ saved.runs = 2
    /\ ~transform_raises(fe, <<doc_call>>)
    /\ Len(transform(fe, <<doc_call>>)[1]) = clf.n_features_in_

\* The number of nodes of tree t, at any depth, whose kind is one of kinds.
RECURSIVE NodesOfKinds(_, _)
NodesOfKinds(t, kinds) ==
    IF t = <<>> THEN 0
    ELSE (IF Head(t).kind \in kinds THEN 1 ELSE 0) + NodesOfKinds(Tail(t), kinds)

\* C19: for a text that parses, num_functions is the number of FunctionDef
\* nodes, num_classes the number of ClassDef nodes and num_imports the number
\* of Import nodes plus the number of ImportFrom nodes, over the nodes at
\* every depth; 'def add(a, b): return a + b' gives 1, 0, 0 and one Return.
C19_CountsOverAllNodes ==
    (astOutcome = "returned" /\ tree # ParseError) =>
        /\ feat["num_functions"] = NodesOfKinds(tree, {"FunctionDef"})
        /\ feat["num_classes"] = NodesOfKinds(tree, {"ClassDef"})
        /\ feat["num_imports"] =
               NodesOfKinds(tree, {"Import"}) + NodesOfKinds(tree, {"ImportFrom"})
        /\ tree = tree_def_add =>
               /\ feat["ast_parsable"] = 1
               /\ feat["num_functions"] = 1
               /\ feat["num_classes"] = 0
               /\ feat["num_imports"] = 0
               /\ feat["ast_Return_count"] = 1

C19_Witness ==
    /\ astOutcome = "returned"
    /\ tree # ParseError
    /\ \E i \in DOMAIN tree : tree[i].kind = "FunctionDef" /\ tree[i].depth = 2
    /\ \E i \in DOMAIN tree : tree[i].kind = "ImportFrom" /\ tree[i].depth = 3
    /\ feat["num_functions"] = 1
    /\ feat["num_imports"] = 2

\* The nodes on the path from the root of tree t to its node i, node i left
\* out: each is the last node before i that lies less deep than every node
\* after it up to i.
Ancestors(t, i) ==
    { j \in 1..(i - 1) : \A k \in (j + 1)..i : t[k].depth > t[j].depth }

\* The number of edges of the longest path from the root of t to a node.
LongestPath(t) ==
    CHOOSE n \in 0..Len(t) :
        /\ \E i \in DOMAIN t : Cardinality(Ancestors(t, i)) = n
        /\ \A i \in DOMAIN t : Cardinality(Ancestors(t, i)) <= n

\* C20: for a text that parses, max_depth is the number of edges of the
\* longest path from the root of the tree to a node; the tree that is the root
\* alone, that of the empty text, gives ast_parsable 1 and max_depth 0.
C20_MaxDepthIsLongestPath ==
    (astOutcome = "returned" /\ tree # ParseError) =>
        /\ feat["max_depth"] = LongestPath(tree)
        /\ Len(tree) = 1 => feat["ast_parsable"] = 1 /\ feat["max_depth"] = 0

C20_Witness ==
    /\ astOutcome = "returned"
    /\ tree # ParseError
    /\ Len(tree) = 4
    /\ tree[2].depth = 1 /\ tree[3].depth = 2 /\ tree[4].depth = 1
    /\ feat["max_depth"] = 2

\* C21: the traversal is bounded in depth: there is a bound such that, for a
\* text that parses, ast_features returns a record with ast_parsable 1 whose
\* max_depth is at most the bound, and is the bound when the tree is nested
\* deeper than it.
C21_DepthBounded ==
    (astOutcome \in {"returned", "raised"} /\ tree # ParseError) =>
        \E bound \in 0..(RecursionLimit + MaxOverLimit) :
            /\ astOutcome = "returned"
            /\ feat["ast_parsable"] = 1
            /\ feat["max_depth"] <= bound
            /\ (\E i \in DOMAIN tree : tree[i].depth > bound) => feat["max_depth"] = bound

\* The place of a name in the ascending order of the names.
NamePlace(k) == CHOOSE i \in DOMAIN SortedNameUniverse : SortedNameUniverse[i] = k

\* q lists the names of the set keys in ascending order, each once.
IsSortedListOf(q, keys) ==
    /\ { q[i] : i \in DOMAIN q } = keys
    /\ \A i, j \in DOMAIN q : i < j => NamePlace(q[i]) < NamePlace(q[j])

\* The keys of the numeric records of a set of texts.
KeysOf(ds) == UNION { DOMAIN surface_features(d.chars) \cup DOMAIN ast_features(d.parse) : d \in ds }

\* C22: after a fit the numeric names are the keys of the records of the
\* first ten texts of the corpus, sorted and each once; a key that only texts
\* after the tenth have is not among the names, and no row transform builds
\* later has an entry for it, also for a text whose record has that key.
C22_NamesFromSamplePrefix ==
    (fitted.set /\ lastOp \in {"fit", "transform"}) =>
        /\ IsSortedListOf(fe.numeric_feature_names, KeysOf(fitted.sample))
        /\ \A k \in KeysOf(fitted.late) \ KeysOf(fitted.sample) :
              \A i \in DOMAIN fe.numeric_feature_names : fe.numeric_feature_names[i] # k
        /\ (lastOp = "transform" /\ ~lastOut.raised) =>
              \A i \in DOMAIN lastOut.rows :
                  Len(lastOut.rows[i]) =
                      Len(fe.vocabulary_) + Cardinality(KeysOf(fitted.sample))

C22_Witness ==
    /\ fitted.set
    /\ lastOp = "transform" /\ ~lastOut.raised
    /\ fitted.sample = {doc_broken}
    /\ doc_assign \in fitted.late
    /\ lastArg = <<doc_assign>>
    /\ numeric_features(doc_assign)["ast_Assign_count"] = 1
    /\ \A i \in DOMAIN fe.numeric_feature_names :
          fe.numeric_feature_names[i] # "ast_Assign_count"

\* The numeric record of a text: its structural and its surface record.
RecordOf(d) ==
    [ k \in DOMAIN ast_features(d.parse) \cup DOMAIN surface_features(d.chars) |->
        IF k \in DOMAIN ast_features(d.parse) THEN ast_features(d.parse)[k]
        ELSE surface_features(d.chars)[k] ]

\* C23: in the row of a text the first entries, as many as the vocabulary has
\* terms, are the term weights, and the i-th entry after them is the value the
\* text's numeric record has for the i-th numeric name, or 0 when the record
\* has no such key; the row has no other entry.
C23_RowLayout ==
    (lastOp = "transform" /\ ~lastOut.raised) =>
        \A i \in DOMAIN lastArg :
            LET row == lastOut.rows[i]
                rec == RecordOf(lastArg[i])
                V == Len(fe.vocabulary_)
                names == fe.numeric_feature_names
            IN  /\ Len(row) = V + Len(names)
                /\ \A k \in 1..V :
                      /\ row[k][1] = "tfidf"
                      /\ row[k][2] = term_count(lastArg[i], fe.vocabulary_[k])
                /\ \A j \in DOMAIN names :
                      row[V + j] =
                          IF names[j] \notin DOMAIN rec THEN <<"num", 0, 1>>
                          ELSE IF names[j] = "comment_ratio"
                               THEN <<"num", rec[names[j]][1], rec[names[j]][2]>>
                          ELSE <<"num", rec[names[j]], 1>>

C23_Witness ==
    /\ lastOp = "transform" /\ ~lastOut.raised
    /\ lastArg = <<doc_broken>>
    /\ Len(fe.vocabulary_) = 2
    /\ fe.numeric_feature_names[2] = "ast_Call_count"
    /\ lastOut.rows[1][4] = <<"num", 0, 1>>
    /\ lastOut.rows[1][1][2] > 0

\* The names of the structural record.
StructuralNames == StructuralCountNames \cup {"ast_parsable"}

\* C24: a transform of a batch of texts, some of which may not parse, on a
\* fitted extractor does not raise and returns one row per text in the order
\* of the batch; the row of a text that does not parse holds 0 at the place of
\* ast_parsable and of every other structural name, and every row is the row
\* a transform of that text alone returns.
C24_BatchSurvivesUnparsable ==
    (lastOp = "transform" /\ FitCompleted(fe) /\ lastArg # <<>>) =>
        /\ ~lastOut.raised
        /\ Len(lastOut.rows) = Len(lastArg)
        /\ \A i \in DOMAIN lastArg :
              /\ ~transform_raises(fe, <<lastArg[i]>>)
              /\ lastOut.rows[i] = transform(fe, <<lastArg[i]>>)[1]
              /\ lastArg[i].parse = ParseError =>
                    \A j \in DOMAIN fe.numeric_feature_names :
                        fe.numeric_feature_names[j] \in StructuralNames =>
                            lastOut.rows[i][Len(fe.vocabulary_) + j] = <<"num", 0, 1>>

C24_Witness ==
    /\ lastOp = "transform" /\ ~lastOut.raised
    /\ lastArg = <<doc_broken, doc_call>>
    /\ \E j \in DOMAIN fe.numeric_feature_names :
          /\ fe.numeric_feature_names[j] = "ast_Call_count"
          /\ lastOut.rows[1][Len(fe.vocabulary_) + j] = <<"num", 0, 1>>
          /\ lastOut.rows[2][Len(fe.vocabulary_) + j] = <<"num", 1, 1>>

\* The snippet t, as the pieces it is put together from, is a text of the
\* list, alone or followed by the marker comment with a number and no more.
TemplateWithOptionalMarker(t, list, marker) ==
    \E k \in DOMAIN list :
        \/ t = <<list[k]>>
        \/ \E i \in 0..9 : t = <<list[k], marker, str(i)>>

\* C25: every snippet the generator returns is one of the fixed texts of its
\* class, the real templates for label 0 and the hallucinated patterns for
\* label 1, unchanged or with one marker comment appended and nothing else.
C25_TemplateOrTemplateWithMarker ==
    /\ synOp = "synthetic_real_code_snippet" =>
          TemplateWithOptionalMarker(synOut.snippets[1], templates, "\n# generated id: ")
    /\ synOp = "synthetic_hallucinated_code_snippet" =>
          TemplateWithOptionalMarker(synOut.snippets[1], patterns, "\n# hallucination id: ")
    /\ synOp = "synthetic_dataset" =>
          \A i \in DOMAIN synOut.snippets :
              IF synOut.labels[i] = 0
              THEN TemplateWithOptionalMarker(synOut.snippets[i], templates,
                                              "\n# generated id: ")
              ELSE TemplateWithOptionalMarker(synOut.snippets[i], patterns,
                                              "\n# hallucination id: ")

\* C26: however the callers of suggest_fix_ml interleave, the model is loaded
\* at most once: never are two loads in progress at the same time, and not
\* more than one load is ever started.
C26_LoadedAtMostOnce ==
    /\ Cardinality({ t \in Callers : mlPc[t] \in {"line95", "line96"} }) <= 1
    /\ mlLoads <= 1

\* The places of the log at which an agent was called.
CallsOf(agent) == { i \in DOMAIN invoked : invoked[i][1] = agent }

\* C27: in a run of run_all_agents that reaches the agents one session id has
\* been created in that run before the first agent is called; SAA, SCAA and
\* HDVA are each called with it, and IERA is called with it only after the
\* three have returned, whether they raised or not.
C27_OneSessionForAllAgents ==
    invoked # <<>> =>
        /\ session_id # NoSession
        /\ created = 1..session_id
        /\ \A i \in DOMAIN invoked : invoked[i][2] = session_id
        /\ \A a \in {"SAA", "SCAA", "HDVA", "IERA"} : Cardinality(CallsOf(a)) <= 1
        /\ \A i \in CallsOf("IERA") :
              \A a \in {"SAA", "SCAA", "HDVA"} : \E j \in CallsOf(a) : j < i
        /\ orchPc \in {"line272", "returned", "raised"} =>
              \A a \in {"SAA", "SCAA", "HDVA", "IERA"} : CallsOf(a) # {}

C27_Witness ==
    /\ orchPc = "returned"
    /\ runs = 2
    /\ invoked = <<<<"SAA", 2>>, <<"SCAA", 2>>, <<"HDVA", 2>>, <<"IERA", 2>>>>
    /\ scaa_err # ""
    /\ hdva_err = "HDVA error"

\* The agents that reported an error in this run.
FailedAgents ==
    { a \in {"SAA", "SCAA", "HDVA"} :
        \/ a = "SAA" /\ saa_err # ""
        \/ a = "SCAA" /\ scaa_err # ""
        \/ a = "HDVA" /\ hdva_err # "" }

\* C28: an exception in SAA, SCAA or HDVA keeps neither the agents after it
\* nor the recommender from being called; the status returned is 'success'
\* exactly when no agent reported an error and 'partial_success' otherwise,
\* and the result has the key 'errors' exactly in the latter case, with one
\* entry for each agent that failed.
C28_AgentFailuresAreContained ==
    /\ (FailedAgents # {} /\ orchPc \in {"line272", "returned", "raised"}) =>
          /\ { invoked[i][1] : i \in DOMAIN invoked } = {"SAA", "SCAA", "HDVA", "IERA"}
          /\ Len(invoked) = 4
    /\ (orchPc = "returned" /\ invoked # <<>>) =>
          /\ result.status = "success" <=> FailedAgents = {}
          /\ result.status = "partial_success" <=> FailedAgents # {}
          /\ result.has_errors <=> FailedAgents # {}
          /\ Len(result.errors) = Cardinality(FailedAgents)
          /\ saa_err # "" => \E i \in DOMAIN result.errors : result.errors[i] = saa_err
          /\ scaa_err # "" => \E i \in DOMAIN result.errors : result.errors[i] = scaa_err
          /\ hdva_err # "" => \E i \in DOMAIN result.errors : result.errors[i] = hdva_err

C28_Witness ==
    /\ orchPc = "returned"
    /\ Len(invoked) = 4
    /\ saa_err # "" /\ scaa_err = "" /\ hdva_err = "HDVA error"
    /\ result.status = "partial_success"
    /\ result.errors = <<saa_err, hdva_err>>

\* C29: however calls of create_or_update_oauth_user interleave, the
\* collection holds at most one user document for an email, and no two user
\* documents have the same username.
C29_UniqueEmailAndUsername ==
    \A d1, d2 \in users :
        d1.id # d2.id => (d1.email # d2.email /\ d1.username # d2.username)

\* The names of the six per-kind counts.
PerKindCountNames ==
    { "ast_If_count", "ast_For_count", "ast_While_count",
      "ast_Call_count", "ast_Assign_count", "ast_Return_count" }

\* C30: after a fit the six per-kind count names are among the numeric names
\* exactly when one of the first ten texts of the corpus parses; when none of
\* them parses, no row of a later transform has a place for any of the six,
\* also the row of a text that parses.
C30_CountNamesNeedParsableSample ==
    (fitted.set /\ lastOp \in {"fit", "transform"}) =>
        LET names == { fe.numeric_feature_names[i] : i \in DOMAIN fe.numeric_feature_names }
            parsable == \E d \in fitted.sample : d.parse # ParseError
        IN  /\ \A k \in PerKindCountNames : k \in names <=> parsable
            /\ (~parsable /\ lastOp = "transform" /\ ~lastOut.raised) =>
                  \A i \in DOMAIN lastOut.rows :
                      Len(lastOut.rows[i]) =
                          Len(fe.vocabulary_) + Cardinality(names \ PerKindCountNames)

C30_Witness ==
    /\ fitted.set
    /\ fitted.sample = {doc_broken}
    /\ lastOp = "transform" /\ ~lastOut.raised
    /\ lastArg = <<doc_call>>
    /\ "ast_Call_count" \in DOMAIN ast_features(doc_call.parse)
    /\ Len(lastOut.rows[1]) = Len(fe.vocabulary_) + 11

====
